---- MODULE Spec2Model ----
(***************************************************************************)
(* Verification model of the AthleteX kinematic test programs:             *)
(*   - the sit-up counter        (situps_complete.py,        prefix su_)    *)
(*   - the sit-and-reach test    (sit_reach_test.py,         prefix sr_)    *)
(*   - the broad-jump test       (live_broad_jump_test.py,   prefix bj_)    *)
(*   - the height assessment     (height_assessment.py,      prefix ha_)    *)
(*   - the sprint server         (app_single.py, app.py,     prefix sp_)    *)
(*   - the broad-jump scale      (live_broad_jump_test.py,   prefix sc_)    *)
(*   - the shuttle-run age group (demo_shuttle_run.py,       prefix ag_)    *)
(*                                                                         *)
(* Each program is a frame-driven loop.  One action models one pass of a   *)
(* phase handler over one camera frame, or one key press.  The pose        *)
(* estimator is external: what it reports for a frame is an input drawn    *)
(* from a small set.                                                       *)
(*                                                                         *)
(* Time.  The programs read time.time() and only ever use differences      *)
(* time.time() - stamp.  Each stamp is therefore carried as that           *)
(* difference (its age), advanced by the time dt that passed since the     *)
(* previous frame and saturated just beyond the largest threshold it is    *)
(* compared with.  Sit-up ages are in ticks of 0.1 s; sit-and-reach and    *)
(* height ages are in whole seconds.                                       *)
(***************************************************************************)
EXTENDS Integers, Sequences, FiniteSets, TLC

Min(a, b) == IF a <= b THEN a ELSE b
Max(a, b) == IF a >= b THEN a ELSE b
Abs(a) == IF a >= 0 THEN a ELSE 0 - a

(***************************************************************************)
(* =============================  STATE  ================================  *)
(* The programs are separate processes; a run of the model runs one        *)
(* of them and leaves the state of the others alone.                       *)
(***************************************************************************)

VARIABLES
  su_phase,              \* self.phase
  su_state,              \* self.state  ("DOWN" / "UP")
  su_rep_count,          \* self.rep_count
  su_current_angle,      \* self.current_angle
  su_min_angle_in_cycle, \* self.min_angle_in_cycle
  su_max_angle_in_cycle, \* self.max_angle_in_cycle
  su_state_age,          \* time.time() - self.state_entry_time
  su_elapsed,            \* time.time() - self.start_time  (-1: start_time None)
  su_phase_age,          \* time.time() - self.phase_start_time
  su_countdown_age,      \* time.time() - self.last_countdown_time
  su_countdown_value,    \* self.countdown_value
  su_position_ready,     \* self.position_ready
  su_body_visible_count, \* self.body_visible_count
  su_age,                \* self.age
  su_gender,             \* self.gender
  su_quit,               \* main loop left through 'q'
  su_frames,             \* number of RUNNING frames processed so far
  su_log,                \* what the last frame printed / spoke about the rep
  su_crossed,            \* the DOWN/UP state whose threshold the angle crossed
                         \* on the last frame ("none": it did not cross)
  su_setup_view          \* in CAMERA_SETUP, what the last frame showed:
                         \* "full", "partial" or "no_pose" ("none": no frame
                         \* of the phase yet, or another phase)

su_vars == <<su_phase, su_state, su_rep_count, su_current_angle,
             su_min_angle_in_cycle, su_max_angle_in_cycle, su_state_age,
             su_elapsed, su_phase_age, su_countdown_age, su_countdown_value,
             su_position_ready, su_body_visible_count, su_age, su_gender,
             su_quit, su_frames, su_log, su_crossed, su_setup_view>>

VARIABLES
  sr_state,              \* self.state
  sr_pixels_per_cm,      \* self.pixels_per_cm
  sr_is_calibrated,      \* self.is_calibrated
  sr_calibration_method, \* self.calibration_method
  sr_baseline_x,         \* self.baseline_x (and baseline_y: set together)
  sr_baseline_samples,   \* self.baseline_samples: its len() and sum()
  sr_baseline_locked,    \* hasattr(self,'baseline_locked') and self.baseline_locked
  sr_ready_started,      \* hasattr(self, 'ready_started')
  sr_countdown_age,      \* time.time() - self.countdown_start
  sr_attempt_age,        \* time.time() - self.attempt_start_time (-1: no attribute)
  sr_result_age,         \* time.time() - self.result_show_time
  sr_max_reach_cm,       \* self.max_reach_cm
  sr_attempts,           \* self.attempts: the reach_cm of each entry
  sr_current_attempt,    \* self.current_attempt
  sr_crashed,            \* run_test left through an uncaught exception
  sr_sessions            \* number of restarts so far

sr_vars == <<sr_state, sr_pixels_per_cm, sr_is_calibrated,
             sr_calibration_method, sr_baseline_x, sr_baseline_samples,
             sr_baseline_locked, sr_ready_started, sr_countdown_age,
             sr_attempt_age, sr_result_age, sr_max_reach_cm, sr_attempts,
             sr_current_attempt, sr_crashed, sr_sessions>>

VARIABLES
  bj_pc,            \* where main() is
  bj_points,        \* calibrate_system: points (their x)
  bj_px_per_meter,  \* main: px_per_meter
  bj_reference_x,   \* main: reference_x
  bj_trial,         \* main: trial
  bj_results,       \* main: results
  bj_saved,         \* rows written by save_result
  bj_report,        \* what main() printed last
  bj_best,          \* the BEST JUMP printed
  bj_avg,           \* the AVERAGE printed
  bj_age,           \* run_trial: time since the current loop began
  bj_static_count,  \* run_trial: static_count
  bj_still_run,     \* run_trial, start position: the number of latest frames
                    \* in a row that each moved at most STATIC_TOLERANCE_PX,
                    \* counted up to STATIC_FRAMES_REQUIRED
  bj_prev_x,        \* run_trial: prev_x
  bj_start_x,       \* run_trial: start_x
  bj_took_off,      \* run_trial: took_off
  bj_prev_smooth,   \* run_trial: prev_smooth
  bj_stable,        \* run_trial: stable
  bj_max_x,         \* run_trial: max_x
  bj_frames         \* frames with ankles seen in the tracking loop

bj_vars == <<bj_pc, bj_points, bj_px_per_meter, bj_reference_x, bj_trial,
             bj_results, bj_saved, bj_report, bj_best, bj_avg, bj_age,
             bj_static_count, bj_still_run, bj_prev_x, bj_start_x,
             bj_took_off,
             bj_prev_smooth, bj_stable, bj_max_x, bj_frames>>

VARIABLES
  ha_state,                  \* self.state
  ha_is_calibrated,          \* self.is_calibrated
  ha_pixels_per_cm,          \* self.pixels_per_cm
  ha_calibration_samples,    \* self.calibration_samples
  ha_marker_samples,         \* how many of them were measured from a marker
  ha_calibrated_by,          \* the branch that set is_calibrated ("none": not set)
  ha_waiting_age,            \* time spent in WAITING without a scale
  ha_aruco_detected,         \* self.aruco_detected
  ha_position_stable_frames, \* self.position_stable_frames
  ha_countdown_age,          \* time.time() - self.countdown_start
  ha_last_countdown,         \* hasattr(self, 'last_countdown')
  ha_initial_foot_y,         \* self.initial_foot_y
  ha_initial_nose_y,         \* self.initial_nose_y
  ha_initial_torso_length,   \* self.initial_torso_length (HaNone: no attribute)
  ha_initial_leg_length,     \* self.initial_leg_length
  ha_baseline_frames,        \* self.baseline_frames
  ha_baseline_nose_frames,   \* self.baseline_nose_frames
  ha_baseline_torso_frames,  \* self.baseline_torso_frames
  ha_baseline_leg_frames,    \* self.baseline_leg_frames
  ha_cheat_detected,         \* self.cheat_detected
  ha_cheat_reasons,          \* self.cheat_reasons
  ha_height_measurements,    \* self.height_measurements
  ha_measure_age,            \* time.time() - self.measure_start (-1: no attribute)
  ha_final_height,           \* self.final_height
  ha_quit,                   \* run_assessment has left its loop
  ha_crashed,                \* ... through an uncaught exception
  ha_reported,               \* the cheat reasons the last frame reported
  ha_violations              \* the cheat checks the last frame's pose fails

ha_vars == <<ha_state, ha_is_calibrated, ha_pixels_per_cm,
             ha_calibration_samples, ha_marker_samples, ha_calibrated_by,
             ha_waiting_age, ha_aruco_detected,
             ha_position_stable_frames, ha_countdown_age, ha_last_countdown,
             ha_crashed, ha_initial_foot_y,
             ha_initial_nose_y, ha_initial_torso_length,
             ha_initial_leg_length, ha_baseline_frames,
             ha_baseline_nose_frames, ha_baseline_torso_frames,
             ha_baseline_leg_frames, ha_cheat_detected, ha_cheat_reasons,
             ha_height_measurements, ha_measure_age, ha_final_height,
             ha_quit, ha_reported, ha_violations>>

VARIABLES
  sp_start_line,       \* start_line (SpNone: None)
  sp_finish_line,      \* finish_line (SpNone: None)
  sp_start_age,        \* time.time() - start_time (SpNone: start_time is None)
  sp_runner_started,   \* runner_started
  sp_runner_finished,  \* runner_finished
  sp_video_cap,        \* uploaded_video_cap: "None", "opened" or "unopened"
  sp_request,          \* the request served last ("" before the first)
  sp_reply_time,       \* 'time' of the last finished check_status reply
  sp_reply_speed,      \* 'speed_mps' of that reply (SpNone: none since the
                       \* last start_test or reset)
  sp_frame_pc          \* where the generate_frames thread stands: "loop"
                       \* (top of the loop) or "tracking" (inside the
                       \* 'if runner_started and not runner_finished')

sp_vars == <<sp_start_line, sp_finish_line, sp_start_age, sp_runner_started,
             sp_runner_finished, sp_video_cap, sp_request, sp_reply_time,
             sp_reply_speed, sp_frame_pc>>

\* One calibration of the broad-jump test followed by one measurement, as
\* calibrate_system and run_trial compute them.
VARIABLES
  sc_px_distance,   \* calibrate_system: px_distance
  sc_real_cm,       \* calibrate_system: real_distance, in cm
  sc_span_px,       \* run_trial: px_distance
  sc_px_per_meter,  \* calibrate_system: px_per_meter (BjNone: not computed)
  sc_distance_mm    \* run_trial: distance_m, in mm (BjNone: not computed)

sc_vars == <<sc_px_distance, sc_real_cm, sc_span_px, sc_px_per_meter,
             sc_distance_mm>>

\* One call of the shuttle-run ScoringEngine.get_age_group.
VARIABLES
  ag_age,    \* the argument age
  ag_group   \* the group returned ("": not called yet)

ag_vars == <<ag_age, ag_group>>

\* The shuttle-run analyzer: the analysis_jobs table, the Celery tasks and
\* the reply to the last request.
VARIABLES
  sh_jobs,   \* session -> the AnalysisJob row (status "absent": no row)
  sh_tasks,  \* session -> the process_video_task of the session: its state
             \* ("none", "queued", "returned") and what it returned
  sh_reply   \* the reply to the last request

sh_vars == <<sh_jobs, sh_tasks, sh_reply>>

\* One call of the vertical-jump FeatureExtractor.extract_from_pose.
VARIABLES
  fe_com_heights,  \* the centre-of-mass y of each pose of pose_sequence
  fe_phases,       \* the JumpPhases detect_phases returned ("none": no call)
  fe_outcome       \* "none", "features" or "IndexError"

fe_vars == <<fe_com_heights, fe_phases, fe_outcome>>

\* What each program leaves alone.
su_others == <<sr_vars, bj_vars, ha_vars, sp_vars, sc_vars, ag_vars, sh_vars, fe_vars>>
sr_others == <<su_vars, bj_vars, ha_vars, sp_vars, sc_vars, ag_vars, sh_vars, fe_vars>>
bj_others == <<su_vars, sr_vars, ha_vars, sp_vars, sc_vars, ag_vars, sh_vars, fe_vars>>
ha_others == <<su_vars, sr_vars, bj_vars, sp_vars, sc_vars, ag_vars, sh_vars, fe_vars>>
sp_others == <<su_vars, sr_vars, bj_vars, ha_vars, sc_vars, ag_vars, sh_vars, fe_vars>>
sc_others == <<su_vars, sr_vars, bj_vars, ha_vars, sp_vars, ag_vars, sh_vars, fe_vars>>
ag_others == <<su_vars, sr_vars, bj_vars, ha_vars, sp_vars, sc_vars, sh_vars, fe_vars>>
sh_others == <<su_vars, sr_vars, bj_vars, ha_vars, sp_vars, sc_vars, ag_vars,
              fe_vars>>
fe_others == <<su_vars, sr_vars, bj_vars, ha_vars, sp_vars, sc_vars, ag_vars,
              sh_vars>>

(***************************************************************************)
(* ======================  SIT-UP COUNTER  ==============================  *)
(***************************************************************************)

\* SitupCounter.__init__ thresholds; times in ticks of 0.1 s.
test_duration == 300
UP_THRESHOLD == 70
DOWN_THRESHOLD == 160
MIN_RANGE == 50
MIN_HOLD_TIME == 3
MAX_REP_TIME == 30
PositionHoldTicks == 20
CountdownStepTicks == 10

\* Bounds of the sit-up model.
MaxReps == 2
MaxBodyVisible == 1
MaxRunFrames == 5

\* Inputs: the transformed hip angle of a frame, and the time since the
\* previous frame.
SuAngles == {60, 160, 170}
SuDts == {0, 1, 3, 31, 149}

SuStateAgeCap == MAX_REP_TIME + 1
SuElapsedCap == test_duration + 1
SuPhaseAgeCap == PositionHoldTicks + 1
SuCountdownAgeCap == CountdownStepTicks

\* SitupCounter.__init__
SuInit ==
  /\ su_phase = "WELCOME"
  /\ su_state = "DOWN"
  /\ su_rep_count = 0
  /\ su_current_angle = 0
  /\ su_min_angle_in_cycle = 180
  /\ su_max_angle_in_cycle = 0
  /\ su_state_age = 0
  /\ su_elapsed = -1
  /\ su_phase_age = 0
  /\ su_countdown_age = SuCountdownAgeCap
  /\ su_countdown_value = 3
  /\ su_position_ready = FALSE
  /\ su_body_visible_count = 0
  /\ su_age = "None"
  /\ su_gender = "None"
  /\ su_quit = FALSE
  /\ su_frames = 0
  /\ su_log = "none"
  /\ su_crossed = "none"
  /\ su_setup_view = "none"

\* The clock moves on by dt: an age grows, saturated at its cap.  An age is
\* advanced only in the phases that read it before its stamp is next set:
\* phase_start_time is read only in POSITION, last_countdown_time only in
\* COUNTDOWN, start_time only in RUNNING.
SuAged(age, dt, cap) == Min(age + dt, cap)

\* VALIDATION 1: the DOWN state was held long enough to go UP.
DownHoldOk_NoCheck(down_hold_time) == TRUE
DownHoldOk(down_hold_time) == ~(down_hold_time < MIN_HOLD_TIME)

\* VALIDATION 2: the UP state was held long enough.
UpHoldOk_NoCheck(time_in_up) == TRUE
UpHoldOk(time_in_up) == ~(time_in_up < MIN_HOLD_TIME)

\* VALIDATION 3: the rep completed within the time limit.
RepTimeOk(total_rep_time) == ~(total_rep_time > MAX_REP_TIME)

\* VALIDATION 4 with a range no rep of the thresholds is sure to reach.
RangeOk_Wider(angle_range) == ~(angle_range < 2 * MIN_RANGE + 20)

\* VALIDATION 4: sufficient range of motion.
RangeOk(angle_range) == ~(angle_range < MIN_RANGE)

\* VALIDATION 5: proper extreme angles.
MinAngleOk(mn) == ~(mn >= UP_THRESHOLD)
MaxAngleOk(mx) == ~(mx < DOWN_THRESHOLD)

\* The verdict of the UP -> DOWN evaluation: the first failing validation in
\* the code's order, or "counted".
RepVerdict(time_in_up, mn, mx) ==
  IF ~UpHoldOk(time_in_up) THEN "rej_hold"
  ELSE IF ~RepTimeOk(time_in_up) THEN "rej_slow"
  ELSE IF ~RangeOk(mx - mn) THEN "rej_range"
  ELSE IF ~MinAngleOk(mn) THEN "rej_min"
  ELSE IF ~MaxAngleOk(mx) THEN "rej_max"
  ELSE "counted"

\* show_running_test: self.min_angle_in_cycle after a rep was evaluated,
\* counted or rejected.
MinAfterRep_Kept == su_min_angle_in_cycle
MinAfterRep == 180

\* "Time management" at the end of show_running_test.
SuTimeUp(elapsed) == test_duration - elapsed <= 0

\* show_running_test: the condition under which a state is left.
Trigger(state, angle) ==
  \/ state = "DOWN" /\ angle < UP_THRESHOLD
  \/ state = "UP" /\ angle > DOWN_THRESHOLD

\* show_running_test: self.state after a frame without landmarks.
StateWithoutLandmarks_Down == "DOWN"
StateWithoutLandmarks == su_state

\* show_running_test: one RUNNING frame.
SuRunningFrame(landmarks, angle, dt) ==
  /\ ~su_quit
  /\ su_crossed' = IF landmarks /\ Trigger(su_state, angle)
                      /\ ~Trigger(su_state, su_current_angle)
                   THEN su_state ELSE "none"
  /\ UNCHANGED su_setup_view
  /\ su_phase = "RUNNING"
  /\ su_rep_count < MaxReps
  /\ su_frames < MaxRunFrames
  /\ su_frames' = su_frames + 1
  /\ LET sa == SuAged(su_state_age, dt, SuStateAgeCap)
         el == SuAged(su_elapsed, dt, SuElapsedCap)
         mn == Min(su_min_angle_in_cycle, angle)
         mx == Max(su_max_angle_in_cycle, angle)
         done == IF SuTimeUp(el) THEN "COMPLETE" ELSE "RUNNING"
     IN
     /\ su_elapsed' = el
     /\ IF ~landmarks
        THEN /\ su_log' = "no_body"
             /\ su_state_age' = sa
             /\ su_state' = StateWithoutLandmarks
             /\ UNCHANGED <<su_phase, su_rep_count, su_current_angle,
                            su_min_angle_in_cycle, su_max_angle_in_cycle>>
        ELSE
        /\ su_current_angle' = angle
        /\ IF su_state = "DOWN" /\ angle < UP_THRESHOLD
           THEN IF ~DownHoldOk(sa)
                THEN \* rejected, early return
                     /\ su_log' = "up_rejected"
                     /\ su_state_age' = sa
                     /\ su_min_angle_in_cycle' = mn
                     /\ su_max_angle_in_cycle' = mx
                     /\ UNCHANGED <<su_phase, su_state, su_rep_count>>
                ELSE /\ su_state' = "UP"
                     /\ su_state_age' = 0
                     /\ su_log' = "to_up"
                     /\ su_min_angle_in_cycle' = mn
                     /\ su_max_angle_in_cycle' = mx
                     /\ su_phase' = done
                     /\ UNCHANGED su_rep_count
           ELSE IF su_state = "UP" /\ angle > DOWN_THRESHOLD
           THEN LET v == RepVerdict(sa, mn, mx) IN
                /\ su_state' = "DOWN"
                /\ su_state_age' = 0
                /\ su_min_angle_in_cycle' = MinAfterRep
                /\ su_max_angle_in_cycle' = 0
                /\ su_log' = v
                /\ IF v = "counted"
                   THEN /\ su_rep_count' = su_rep_count + 1
                        /\ su_phase' = done
                   ELSE \* rejected, early return
                        UNCHANGED <<su_rep_count, su_phase>>
           ELSE /\ su_log' = "none"
                /\ su_state_age' = sa
                /\ su_min_angle_in_cycle' = mn
                /\ su_max_angle_in_cycle' = mx
                /\ su_phase' = done
                /\ UNCHANGED <<su_state, su_rep_count>>
  /\ UNCHANGED <<su_phase_age, su_countdown_age, su_countdown_value,
                 su_position_ready, su_body_visible_count, su_age, su_gender,
                 su_quit>>
  /\ UNCHANGED su_others

\* show_welcome / show_user_info / show_rules / show_results: the frame is
\* only drawn on.
SuIdleFrame(dt) ==
  /\ ~su_quit
  /\ UNCHANGED su_crossed
  /\ UNCHANGED su_setup_view
  /\ su_phase \in {"WELCOME", "USER_INFO", "RULES", "COMPLETE"}
  /\ su_state_age' = SuAged(su_state_age, dt, SuStateAgeCap)
  /\ UNCHANGED <<su_phase, su_phase_age, su_countdown_age, su_elapsed,
                 su_frames, su_state, su_rep_count, su_current_angle,
                 su_min_angle_in_cycle, su_max_angle_in_cycle,
                 su_countdown_value, su_position_ready, su_body_visible_count,
                 su_age, su_gender, su_quit, su_log>>
  /\ UNCHANGED su_others

\* show_camera_setup: counts the frames in which the full body is visible.
SuCameraSetupFrame(landmarks, all_visible, dt) ==
  /\ ~su_quit
  /\ UNCHANGED su_crossed
  /\ su_phase = "CAMERA_SETUP"
  /\ (landmarks /\ all_visible) => su_body_visible_count < MaxBodyVisible
  /\ su_setup_view' = IF ~landmarks THEN "no_pose"
                      ELSE IF all_visible THEN "full" ELSE "partial"
  /\ su_state_age' = SuAged(su_state_age, dt, SuStateAgeCap)
  /\ su_body_visible_count' =
       IF landmarks
       THEN IF all_visible THEN su_body_visible_count + 1 ELSE 0
       ELSE su_body_visible_count
  /\ UNCHANGED <<su_phase, su_state, su_rep_count, su_current_angle,
                 su_min_angle_in_cycle, su_max_angle_in_cycle, su_elapsed,
                 su_phase_age, su_countdown_age, su_countdown_value,
                 su_position_ready, su_age, su_gender, su_quit, su_frames,
                 su_log>>
  /\ UNCHANGED su_others

\* process_frame, POSITION branch: show_position_check, then the auto-advance.
SuPositionFrame(landmarks, angle, dt) ==
  /\ ~su_quit
  /\ UNCHANGED su_crossed
  /\ UNCHANGED su_setup_view
  /\ su_phase = "POSITION"
  /\ su_state_age' = SuAged(su_state_age, dt, SuStateAgeCap)
  /\ LET pa == SuAged(su_phase_age, dt, SuPhaseAgeCap)
         ready == IF landmarks THEN angle >= DOWN_THRESHOLD
                  ELSE su_position_ready
     IN
     /\ su_position_ready' = ready
     /\ su_current_angle' = IF landmarks THEN angle ELSE su_current_angle
     /\ IF ready /\ pa > PositionHoldTicks
        THEN /\ su_phase' = "COUNTDOWN"
             /\ su_phase_age' = 0
             /\ su_countdown_age' = 0
        ELSE /\ su_phase' = su_phase
             /\ su_phase_age' = pa
             /\ UNCHANGED su_countdown_age
  /\ UNCHANGED <<su_state, su_rep_count, su_min_angle_in_cycle,
                 su_max_angle_in_cycle, su_elapsed, su_countdown_value,
                 su_body_visible_count, su_age, su_gender, su_quit, su_frames,
                 su_log>>
  /\ UNCHANGED su_others

\* show_countdown: one step per second, then GO.
SuCountdownFrame(dt) ==
  /\ ~su_quit
  /\ UNCHANGED su_crossed
  /\ UNCHANGED su_setup_view
  /\ su_phase = "COUNTDOWN"
  /\ su_state_age' = SuAged(su_state_age, dt, SuStateAgeCap)
  /\ LET ca == SuAged(su_countdown_age, dt, SuCountdownAgeCap) IN
     IF ca >= CountdownStepTicks
     THEN IF su_countdown_value > 0
          THEN /\ su_countdown_age' = 0
               /\ su_countdown_value' = su_countdown_value - 1
               /\ UNCHANGED <<su_phase, su_elapsed>>
          ELSE /\ su_phase' = "RUNNING"
               /\ su_elapsed' = 0
               /\ su_countdown_age' = ca
               /\ UNCHANGED su_countdown_value
     ELSE /\ su_countdown_age' = ca
          /\ UNCHANGED <<su_phase, su_elapsed, su_countdown_value>>
  /\ UNCHANGED <<su_state, su_rep_count, su_current_angle,
                 su_min_angle_in_cycle, su_max_angle_in_cycle, su_phase_age,
                 su_position_ready, su_body_visible_count, su_age, su_gender,
                 su_quit, su_frames, su_log>>
  /\ UNCHANGED su_others

\* main: 'q' leaves the loop.
SuKeyQuit ==
  /\ ~su_quit
  /\ UNCHANGED su_crossed
  /\ UNCHANGED su_setup_view
  /\ su_quit' = TRUE
  /\ UNCHANGED <<su_phase, su_state, su_rep_count, su_current_angle,
                 su_min_angle_in_cycle, su_max_angle_in_cycle, su_state_age,
                 su_elapsed, su_phase_age, su_countdown_age,
                 su_countdown_value, su_position_ready, su_body_visible_count,
                 su_age, su_gender, su_frames, su_log>>
  /\ UNCHANGED su_others

\* main: 'r' replaces the counter by a new SitupCounter().
SuKeyRestart ==
  /\ ~su_quit
  /\ su_phase' = "WELCOME"
  /\ su_state' = "DOWN"
  /\ su_rep_count' = 0
  /\ su_current_angle' = 0
  /\ su_min_angle_in_cycle' = 180
  /\ su_max_angle_in_cycle' = 0
  /\ su_state_age' = 0
  /\ su_elapsed' = -1
  /\ su_phase_age' = 0
  /\ su_countdown_age' = SuCountdownAgeCap
  /\ su_countdown_value' = 3
  /\ su_position_ready' = FALSE
  /\ su_body_visible_count' = 0
  /\ su_age' = "None"
  /\ su_gender' = "None"
  /\ su_frames' = 0
  /\ su_log' = "none"
  /\ su_crossed' = "none"
  /\ su_setup_view' = "none"
  /\ UNCHANGED su_quit
  /\ UNCHANGED su_others

\* A SPACE handler that also leaves the results screen.
SuSpaceTarget_FromComplete ==
  IF su_phase = "WELCOME" THEN "USER_INFO"
  ELSE IF su_phase = "USER_INFO" THEN "CAMERA_SETUP"
  ELSE IF su_phase = "CAMERA_SETUP"
       THEN IF su_body_visible_count > 0 THEN "RULES" ELSE su_phase
  ELSE IF su_phase = "RULES" THEN "POSITION"
  ELSE IF su_phase = "COMPLETE" THEN "WELCOME"
  ELSE su_phase

\* A SPACE handler that passes over the user information screen.
SuSpaceTarget_SkipInfo ==
  IF su_phase = "WELCOME" THEN "CAMERA_SETUP"
  ELSE IF su_phase = "USER_INFO" THEN "CAMERA_SETUP"
  ELSE IF su_phase = "CAMERA_SETUP"
       THEN IF su_body_visible_count > 0 THEN "RULES" ELSE su_phase
  ELSE IF su_phase = "RULES" THEN "POSITION"
  ELSE su_phase

\* main: SPACE advances through the set-up phases.
SuSpaceTarget ==
  IF su_phase = "WELCOME" THEN "USER_INFO"
  ELSE IF su_phase = "USER_INFO" THEN "CAMERA_SETUP"
  ELSE IF su_phase = "CAMERA_SETUP"
       THEN IF su_body_visible_count > 0 THEN "RULES" ELSE su_phase
  ELSE IF su_phase = "RULES" THEN "POSITION"
  ELSE su_phase

SuKeySpace ==
  /\ ~su_quit
  /\ UNCHANGED su_crossed
  /\ su_setup_view' = IF su_phase = "CAMERA_SETUP" /\ SuSpaceTarget # su_phase
                      THEN "none" ELSE su_setup_view
  /\ su_phase' = SuSpaceTarget
  /\ su_phase_age' = IF SuSpaceTarget # su_phase THEN 0 ELSE su_phase_age
  /\ UNCHANGED <<su_state, su_rep_count, su_current_angle,
                 su_min_angle_in_cycle, su_max_angle_in_cycle, su_state_age,
                 su_elapsed, su_countdown_age, su_countdown_value,
                 su_position_ready, su_body_visible_count, su_age, su_gender,
                 su_quit, su_frames, su_log>>
  /\ UNCHANGED su_others

\* main: the one-key age/gender choice of the USER_INFO phase.  'q' never
\* gets here: it is taken by the quit branch first.
SuUserInfoKeys == {"5", "Q"}

SuAgeOfKey(k) ==
  IF k \in {"1", "7"} THEN "10-15 years"
  ELSE IF k \in {"2", "8"} THEN "16-25 years"
  ELSE IF k \in {"3", "9"} THEN "26-35 years"
  ELSE IF k \in {"4", "0"} THEN "36-45 years"
  ELSE IF k \in {"5", "Q"} THEN "46-55 years"
  ELSE "56+ years"

SuGenderOfKey(k) ==
  IF k \in {"1", "2", "3", "4", "5", "6"} THEN "Male" ELSE "Female"

SuKeyUserInfo(k) ==
  /\ ~su_quit
  /\ UNCHANGED su_crossed
  /\ UNCHANGED su_setup_view
  /\ su_phase = "USER_INFO"
  /\ su_age' = SuAgeOfKey(k)
  /\ su_gender' = SuGenderOfKey(k)
  /\ su_phase' = "CAMERA_SETUP"
  /\ su_phase_age' = 0
  /\ UNCHANGED <<su_state, su_rep_count, su_current_angle,
                 su_min_angle_in_cycle, su_max_angle_in_cycle, su_state_age,
                 su_elapsed, su_countdown_age, su_countdown_value,
                 su_position_ready, su_body_visible_count, su_quit, su_frames,
                 su_log>>
  /\ UNCHANGED su_others

SuFrame ==
  \E dt \in SuDts :
    \/ SuIdleFrame(dt)
    \/ \E lm \in BOOLEAN, vis \in BOOLEAN : SuCameraSetupFrame(lm, vis, dt)
    \/ \E lm \in BOOLEAN, a \in SuAngles : SuPositionFrame(lm, a, dt)
    \/ SuCountdownFrame(dt)
    \/ \E lm \in BOOLEAN, a \in SuAngles : SuRunningFrame(lm, a, dt)

SuKey ==
  \/ SuKeyQuit
  \/ SuKeyRestart
  \/ SuKeySpace
  \/ \E k \in SuUserInfoKeys : SuKeyUserInfo(k)

SuNext == SuFrame \/ SuKey

(***************************************************************************)
(* ======================  SIT-AND-REACH TEST  ==========================  *)
(* SitReachTest starts in READY, so the SETUP_GUIDE, CALIBRATION and       *)
(* RULER_CALIBRATION handlers of run_test (and the marker and ruler        *)
(* calibrations reached only from them) never run; they are not actions.   *)
(* Ages are in whole seconds.  Pixel inputs are chosen so that every       *)
(* division the code performs is exact; a reach is carried in units of     *)
(* 1/ReachScale cm.                                                        *)
(***************************************************************************)

max_attempts == 3
DefaultPixelsPerCm == 4
SittingLegCm == 52
MinHipToAnklePx == 100
BaselineSamplesToLock == 10
SrCountdownSecs == 3
SrAttemptSecs == 5
SrRestSecs == 5
ReachScale == 400

\* Bound of the sit-and-reach model: restarts explored.
MaxSessions == 1

\* Inputs.  A foot or hand position of 0 stands for "not visible".  The
\* hip-to-ankle distance 52 stands for every frame that yields no scale
\* (no keypoints, low confidence, or too short a distance).
SrDts == {0, 2, 5}
SrHipToAnklePx == {52, 104, 208}
SrFootX == {0, 300, 312}
SrHandX == {0, 60, 540}

NoBaseline == -1

\* SitReachTest.__init__
SrInit ==
  /\ sr_state = "READY"
  /\ sr_pixels_per_cm = DefaultPixelsPerCm
  /\ sr_is_calibrated = TRUE
  /\ sr_calibration_method = "None"
  /\ sr_baseline_x = NoBaseline
  /\ sr_baseline_samples = [n |-> 0, sum |-> 0]
  /\ sr_baseline_locked = FALSE
  /\ sr_ready_started = FALSE
  /\ sr_countdown_age = 0
  /\ sr_attempt_age = -1
  /\ sr_result_age = 0
  /\ sr_max_reach_cm = 0
  /\ sr_attempts = <<>>
  /\ sr_current_attempt = 0
  /\ sr_crashed = FALSE
  /\ sr_sessions = 0

\* calibrate_with_standard_box: does this frame give a scale?  hip_px is the
\* hip-to-ankle distance of the frame.
AutoCalibrates(hip_px) == hip_px > MinHipToAnklePx

\* run_test, "Auto-calibrate in background": runs on every frame, in every
\* state, before the state machine.
SrBackgroundCalibrate(hip_px) ==
  IF AutoCalibrates(hip_px)
  THEN /\ sr_pixels_per_cm' = hip_px \div SittingLegCm
       /\ sr_calibration_method' = "AUTO"
       /\ sr_is_calibrated' = TRUE
  ELSE UNCHANGED <<sr_pixels_per_cm, sr_calibration_method, sr_is_calibrated>>

\* The scale the state machine sees on a frame, after the background step.
SrScaleAfter(hip_px) ==
  IF AutoCalibrates(hip_px) THEN hip_px \div SittingLegCm
  ELSE sr_pixels_per_cm

\* detect_box_baseline: toe_x from BlazePose, else ankle_x from YOLO.
SrFootSeen(toe_x, ankle_x) == IF toe_x # 0 THEN toe_x ELSE ankle_x

BaselineKept == sr_baseline_locked

\* run_test, READY branch.
SrReadyFrame(hip_px, toe_x, ankle_x, pos_ok) ==
  /\ ~sr_crashed
  /\ sr_state = "READY"
  /\ SrBackgroundCalibrate(hip_px)
  /\ LET foot == SrFootSeen(toe_x, ankle_x)
         detected == BaselineKept \/ foot # 0
         n == sr_baseline_samples.n + 1
         sum == sr_baseline_samples.sum + foot
         locks == n >= BaselineSamplesToLock
     IN
     /\ IF BaselineKept \/ foot = 0
        THEN UNCHANGED <<sr_baseline_x, sr_baseline_samples, sr_baseline_locked>>
        ELSE /\ sr_baseline_samples' = [n |-> n, sum |-> sum]
             /\ sr_baseline_x' = IF locks THEN sum \div n ELSE foot
             /\ sr_baseline_locked' = locks
     /\ IF detected /\ sr_baseline_x' = NoBaseline
        THEN \* the overlay computes self.baseline_y - 100 with baseline_y None
             /\ sr_crashed' = TRUE
             /\ UNCHANGED <<sr_state, sr_ready_started, sr_countdown_age,
                            sr_max_reach_cm>>
        ELSE
        /\ UNCHANGED sr_crashed
        /\ IF detected /\ pos_ok
           THEN IF ~sr_ready_started
                THEN /\ sr_ready_started' = TRUE
                     /\ sr_state' = "COUNTDOWN"
                     /\ sr_countdown_age' = 0
                     /\ sr_max_reach_cm' = 0
                ELSE UNCHANGED <<sr_state, sr_ready_started, sr_countdown_age,
                                 sr_max_reach_cm>>
           ELSE /\ sr_ready_started' = FALSE
                /\ UNCHANGED <<sr_state, sr_countdown_age, sr_max_reach_cm>>
  /\ UNCHANGED <<sr_attempt_age, sr_result_age, sr_attempts,
                 sr_current_attempt, sr_sessions>>
  /\ UNCHANGED sr_others

\* run_test, COUNTDOWN branch.
SrCountdownFrame(hip_px, dt) ==
  /\ ~sr_crashed
  /\ sr_state = "COUNTDOWN"
  /\ SrBackgroundCalibrate(hip_px)
  /\ LET elapsed == Min(sr_countdown_age + dt, SrCountdownSecs) IN
     /\ sr_countdown_age' = elapsed
     /\ sr_state' = IF SrCountdownSecs - elapsed > 0 THEN "COUNTDOWN"
                    ELSE "MEASURING"
  /\ UNCHANGED <<sr_baseline_x, sr_baseline_samples, sr_baseline_locked,
                 sr_ready_started, sr_attempt_age, sr_result_age,
                 sr_max_reach_cm, sr_attempts, sr_current_attempt, sr_crashed,
                 sr_sessions>>
  /\ UNCHANGED sr_others

\* measure_reach / measure_reach_blazepose: the reach of a hand position, in
\* 1/ReachScale cm; 0 when nothing can be measured.
SrReach(hand_x, scale) ==
  IF ~sr_is_calibrated' \/ sr_baseline_x = NoBaseline \/ hand_x = 0 THEN 0
  ELSE ((hand_x - sr_baseline_x) * ReachScale) \div scale

\* run_test, MEASURING branch: the ensemble of the two models.
SrEnsemble(reach_yolo, reach_blazepose) ==
  IF reach_yolo > 0 /\ reach_blazepose > 0
  THEN (45 * reach_yolo + 55 * reach_blazepose) \div 100
  ELSE IF reach_yolo > 0 THEN reach_yolo
  ELSE IF reach_blazepose > 0 THEN reach_blazepose
  ELSE 0

\* run_test, MEASURING branch: 'if self.current_attempt >= self.max_attempts'
AttemptsDone_Late(current_attempt) == current_attempt > max_attempts
AttemptsDone(current_attempt) == current_attempt >= max_attempts

\* run_test, MEASURING branch.
SrMeasuringFrame(hip_px, wrist_x, finger_x, dt) ==
  /\ ~sr_crashed
  /\ sr_state = "MEASURING"
  /\ SrBackgroundCalibrate(hip_px)
  /\ LET elapsed == IF sr_attempt_age < 0 THEN 0
                    ELSE Min(sr_attempt_age + dt, SrAttemptSecs)
         scale == SrScaleAfter(hip_px)
         reach_cm == SrEnsemble(SrReach(wrist_x, scale), SrReach(finger_x, scale))
         best == IF reach_cm > sr_max_reach_cm THEN reach_cm ELSE sr_max_reach_cm
     IN
     /\ sr_attempt_age' = elapsed
     /\ sr_max_reach_cm' = best
     /\ IF SrAttemptSecs - elapsed <= 0
        THEN /\ sr_attempts' = Append(sr_attempts, best)
             /\ sr_current_attempt' = sr_current_attempt + 1
             /\ IF AttemptsDone(sr_current_attempt + 1)
                THEN /\ sr_state' = "COMPLETE"
                     /\ UNCHANGED sr_result_age
                ELSE /\ sr_state' = "ATTEMPT_RESULT"
                     /\ sr_result_age' = 0
        ELSE UNCHANGED <<sr_attempts, sr_current_attempt, sr_state,
                         sr_result_age>>
  /\ UNCHANGED <<sr_baseline_x, sr_baseline_samples, sr_baseline_locked,
                 sr_ready_started, sr_countdown_age, sr_crashed, sr_sessions>>
  /\ UNCHANGED sr_others

\* run_test, ATTEMPT_RESULT branch: rest, then back to READY.
SrAttemptResultFrame(hip_px, dt) ==
  /\ ~sr_crashed
  /\ sr_state = "ATTEMPT_RESULT"
  /\ SrBackgroundCalibrate(hip_px)
  /\ LET elapsed == Min(sr_result_age + dt, SrRestSecs) IN
     IF SrRestSecs - elapsed > 0
     THEN /\ sr_result_age' = elapsed
          /\ UNCHANGED <<sr_state, sr_max_reach_cm, sr_ready_started,
                         sr_attempt_age>>
     ELSE /\ sr_state' = "READY"
          /\ sr_max_reach_cm' = 0
          /\ sr_ready_started' = FALSE
          /\ sr_attempt_age' = -1
          /\ sr_result_age' = 0
  /\ UNCHANGED <<sr_baseline_x, sr_baseline_samples, sr_baseline_locked,
                 sr_countdown_age, sr_attempts, sr_current_attempt,
                 sr_crashed, sr_sessions>>
  /\ UNCHANGED sr_others

\* run_test, COMPLETE branch: the results are only displayed.
SrCompleteFrame(hip_px) ==
  /\ ~sr_crashed
  /\ sr_state = "COMPLETE"
  /\ SrBackgroundCalibrate(hip_px)
  /\ UNCHANGED <<sr_state, sr_baseline_x, sr_baseline_samples,
                 sr_baseline_locked, sr_ready_started, sr_countdown_age,
                 sr_attempt_age, sr_result_age, sr_max_reach_cm, sr_attempts,
                 sr_current_attempt, sr_crashed, sr_sessions>>
  /\ UNCHANGED sr_others

\* run_test: 'r' in COMPLETE runs self.__init__() on the same object.  The
\* attributes __init__ does not assign (baseline_samples, baseline_locked,
\* ready_started, attempt_start_time) keep their values.
SrKeyRestart ==
  /\ ~sr_crashed
  /\ sr_state = "COMPLETE"
  /\ sr_sessions < MaxSessions
  /\ sr_sessions' = sr_sessions + 1
  /\ sr_state' = "READY"
  /\ sr_pixels_per_cm' = DefaultPixelsPerCm
  /\ sr_is_calibrated' = TRUE
  /\ sr_calibration_method' = "None"
  /\ sr_baseline_x' = NoBaseline
  /\ sr_max_reach_cm' = 0
  /\ sr_attempts' = <<>>
  /\ sr_current_attempt' = 0
  /\ sr_attempt_age' = IF sr_attempt_age < 0 THEN sr_attempt_age
                       ELSE SrAttemptSecs
  /\ UNCHANGED <<sr_baseline_samples, sr_baseline_locked, sr_ready_started,
                 sr_countdown_age, sr_result_age, sr_crashed>>
  /\ UNCHANGED sr_others

SrFrame ==
  \E hip_px \in SrHipToAnklePx :
    \/ \E toe_x \in SrFootX, ankle_x \in SrFootX, pos_ok \in BOOLEAN :
         SrReadyFrame(hip_px, toe_x, ankle_x, pos_ok)
    \/ \E dt \in SrDts : SrCountdownFrame(hip_px, dt)
    \/ \E wrist_x \in SrHandX, finger_x \in SrHandX, dt \in SrDts :
         SrMeasuringFrame(hip_px, wrist_x, finger_x, dt)
    \/ \E dt \in SrDts : SrAttemptResultFrame(hip_px, dt)
    \/ SrCompleteFrame(hip_px)

SrNext == SrFrame \/ SrKeyRestart

(***************************************************************************)
(* ========================  BROAD JUMP TEST  ===========================  *)
(* main() of live_broad_jump_test.py as a sequential program: bj_pc is the *)
(* loop the program is in.  The reference object is clicked horizontally,  *)
(* so the pixel distance of the two points is |x2 - x1|.  Distances are in *)
(* millimetres, the reference distance in centimetres, the average in      *)
(* 1/AvgScale mm; pixel inputs are chosen so that every division is exact. *)
(***************************************************************************)

MAX_TRIALS == 3
STATIC_FRAMES_REQUIRED == 5
STATIC_TOLERANCE_PX == 10
TAKEOFF_VELOCITY == 20
LANDING_VELOCITY == 8
LANDING_STABLE_FRAMES == 4
StartTimeoutSecs == 15
TrackTimeoutSecs == 10
MinDistanceMm == 200
MaxDistanceMm == 5000
AvgScale == 6

\* Values that are not numbers.
BjNone == -1
BjNaN == -2
BjInf == -3

\* Bound of the broad-jump model: frames with ankles seen while tracking.
MaxTrackFrames == 5

\* Inputs.
BjClickX == {100, 350}
BjTyped == {"abc", "nan", "-100", "0", "100", "1000"}
BjStartX == {300, 310, 330}
BjTrackX == {320}
BjTrackDx == {0, 40, 100}
BjDts == {0, 8}

bj_trial_vars == <<bj_age, bj_static_count, bj_still_run, bj_prev_x,
                   bj_start_x,
                   bj_took_off, bj_prev_smooth, bj_stable, bj_max_x,
                   bj_frames>>

bj_main_vars == <<bj_px_per_meter, bj_reference_x, bj_trial, bj_results,
                  bj_saved, bj_report, bj_best, bj_avg>>

\* The program at the start of main().
BjInit ==
  /\ bj_pc = "open_camera"
  /\ bj_points = <<>>
  /\ bj_px_per_meter = BjNone
  /\ bj_reference_x = BjNone
  /\ bj_trial = 0
  /\ bj_results = <<>>
  /\ bj_saved = 0
  /\ bj_report = "nothing"
  /\ bj_best = BjNone
  /\ bj_avg = BjNone
  /\ bj_age = 0
  /\ bj_static_count = 0
  /\ bj_still_run = 0
  /\ bj_prev_x = BjNone
  /\ bj_start_x = BjNone
  /\ bj_took_off = FALSE
  /\ bj_prev_smooth = BjNone
  /\ bj_stable = 0
  /\ bj_max_x = BjNone
  /\ bj_frames = 0

\* float(input().strip()): the number typed, in centimetres; BjNone when the
\* text does not parse.
BjParse(text) ==
  CASE text = "nan" -> BjNaN
    [] text = "-100" -> -100
    [] text = "0" -> 0
    [] text = "100" -> 100
    [] text = "1000" -> 1000
    [] OTHER -> BjNone

\* calibrate_system: real_distance <= 0 (false for a NaN).
BjNonPositive(real_cm) == real_cm # BjNaN /\ real_cm <= 0

\* calibrate_system: px_per_meter = px_distance / real_distance.
BjScale_Product(px_distance, real_cm) ==
  IF real_cm = BjNaN THEN BjNaN ELSE (px_distance * real_cm) \div 100
BjScale(px_distance, real_cm) ==
  IF real_cm = BjNaN THEN BjNaN ELSE (px_distance * 100) \div real_cm

\* run_trial: distance_m = px_distance / px_per_meter (numpy division: a
\* zero divisor gives inf, or nan for 0/0).
BjDistance(px_distance, px_per_meter) ==
  IF px_per_meter = BjNaN THEN BjNaN
  ELSE IF px_per_meter = 0 THEN (IF px_distance = 0 THEN BjNaN ELSE BjInf)
  ELSE (px_distance * 1000) \div px_per_meter

\* run_trial: distance_m < 0.2 or distance_m > 5.0.
BjInvalidDistance(d) ==
  IF d = BjNaN THEN FALSE
  ELSE IF d = BjInf THEN TRUE
  ELSE d < MinDistanceMm \/ d > MaxDistanceMm

\* a > b on floats.
BjGreater(a, b) ==
  IF a = BjNaN \/ b = BjNaN THEN FALSE
  ELSE IF a = BjInf THEN b # BjInf
  ELSE IF b = BjInf THEN FALSE
  ELSE a > b

\* max(results)
RECURSIVE BjMaxOf(_, _)
BjMaxOf(results, m) ==
  IF results = <<>> THEN m
  ELSE BjMaxOf(Tail(results),
               IF BjGreater(Head(results), m) THEN Head(results) ELSE m)

\* sum(results)
RECURSIVE BjSumOf(_)
BjSumOf(results) ==
  IF results = <<>> THEN 0
  ELSE LET rest == BjSumOf(Tail(results)) IN
       IF Head(results) = BjNaN \/ rest = BjNaN THEN BjNaN
       ELSE Head(results) + rest

\* main: the final results, printed once the trial loop is over.
BjSummary_Zero(results) ==
  /\ bj_report' = "results"
  /\ bj_best' = IF results = <<>> THEN 0
                ELSE BjMaxOf(Tail(results), Head(results))
  /\ bj_avg' = IF results = <<>> THEN 0
               ELSE IF BjSumOf(results) = BjNaN THEN BjNaN
               ELSE (BjSumOf(results) * AvgScale) \div Len(results)
BjSummary(results) ==
  IF results # <<>>
  THEN /\ bj_report' = "results"
       /\ bj_best' = BjMaxOf(Tail(results), Head(results))
       /\ bj_avg' = IF BjSumOf(results) = BjNaN THEN BjNaN
                    ELSE (BjSumOf(results) * AvgScale) \div Len(results)
  ELSE /\ bj_report' = "no_valid_jumps"
       /\ UNCHANGED <<bj_best, bj_avg>>

\* main, cap.isOpened()
BjOpenCamera(opened) ==
  /\ bj_pc = "open_camera"
  /\ IF opened THEN bj_pc' = "calibrate" /\ UNCHANGED bj_report
     ELSE bj_pc' = "done" /\ bj_report' = "camera_error"
  /\ UNCHANGED <<bj_points, bj_px_per_meter, bj_reference_x, bj_trial,
                 bj_results, bj_saved, bj_best, bj_avg, bj_trial_vars>>
  /\ UNCHANGED bj_others

\* main: where the program goes when calibrate_system returned None.
AfterFailedCalibration_Trials == "trial_wait"
AfterFailedCalibration == "done"

\* main: what follows a calibrate_system that returned None.
BjCalibrationFailed ==
  /\ bj_pc' = AfterFailedCalibration
  /\ bj_report' = "calibration_failed"
  /\ UNCHANGED <<bj_px_per_meter, bj_reference_x, bj_trial, bj_results,
                 bj_saved, bj_best, bj_avg, bj_trial_vars>>

\* calibrate_system: the first frame read after ENTER.
BjCalibrateFirstFrame(ret) ==
  /\ bj_pc = "calibrate"
  /\ IF ret
     THEN /\ bj_pc' = "calibrate_clicks"
          /\ UNCHANGED <<bj_main_vars, bj_trial_vars>>
     ELSE BjCalibrationFailed
  /\ UNCHANGED bj_points
  /\ UNCHANGED bj_others

\* calibrate_system: mouse_callback
BjCalibrateClick(x) ==
  /\ bj_pc = "calibrate_clicks"
  /\ Len(bj_points) < 2
  /\ bj_points' = Append(bj_points, x)
  /\ UNCHANGED <<bj_pc, bj_main_vars, bj_trial_vars>>
  /\ UNCHANGED bj_others

\* calibrate_system: one pass of the click loop with key 'q', 'r' or none;
\* the loop ends once two points are there.
BjCalibrateLoop(key) ==
  /\ bj_pc = "calibrate_clicks"
  /\ IF Len(bj_points) >= 2
     THEN /\ bj_pc' = "calibrate_input"
          /\ UNCHANGED <<bj_points, bj_main_vars, bj_trial_vars>>
     ELSE IF key = "q"
     THEN BjCalibrationFailed /\ UNCHANGED bj_points
     ELSE /\ bj_points' = IF key = "r" THEN <<>> ELSE bj_points
          /\ UNCHANGED <<bj_pc, bj_main_vars, bj_trial_vars>>
  /\ UNCHANGED bj_others

\* calibrate_system: the reference distance is typed; main then starts the
\* trials or gives up.
BjCalibrateInput(text) ==
  /\ bj_pc = "calibrate_input"
  /\ LET px_distance == Abs(bj_points[2] - bj_points[1])
         real_cm == BjParse(text)
     IN IF real_cm = BjNone \/ BjNonPositive(real_cm)
        THEN BjCalibrationFailed
        ELSE /\ bj_px_per_meter' = BjScale(px_distance, real_cm)
             /\ bj_reference_x' = bj_points[1]
             /\ bj_trial' = 1
             /\ bj_pc' = "trial_wait"
             /\ UNCHANGED <<bj_results, bj_saved, bj_report, bj_best, bj_avg,
                            bj_trial_vars>>
  /\ UNCHANGED bj_points
  /\ UNCHANGED bj_others

\* main: run_trial has returned distance (BjNone for None); the next trial
\* starts, or the final results are printed.
BjEndTrial(distance) ==
  LET results == IF distance # BjNone THEN Append(bj_results, distance)
                 ELSE bj_results
  IN
  /\ bj_results' = results
  /\ bj_age' = 0
  /\ bj_static_count' = 0
  /\ bj_still_run' = 0
  /\ bj_prev_x' = BjNone
  /\ bj_start_x' = BjNone
  /\ bj_took_off' = FALSE
  /\ bj_prev_smooth' = BjNone
  /\ bj_stable' = 0
  /\ bj_max_x' = BjNone
  /\ bj_frames' = 0
  /\ IF bj_trial < MAX_TRIALS
     THEN /\ bj_trial' = bj_trial + 1
          /\ bj_pc' = "trial_wait"
          /\ UNCHANGED <<bj_report, bj_best, bj_avg>>
     ELSE /\ bj_pc' = "done"
          /\ UNCHANGED bj_trial
          /\ BjSummary(results)
  /\ UNCHANGED <<bj_points, bj_px_per_meter, bj_reference_x>>

\* run_trial: waiting for SPACE (or 'q').
BjTrialWait(key) ==
  /\ bj_pc = "trial_wait"
  /\ IF key = " "
     THEN /\ bj_pc' = "trial_start"
          /\ UNCHANGED <<bj_points, bj_main_vars, bj_trial_vars>>
     ELSE /\ key = "q"
          /\ BjEndTrial(BjNone)
          /\ UNCHANGED bj_saved
  /\ UNCHANGED bj_others

\* run_trial, phase 1: one pass of the loop that detects the start
\* position; x is the forward ankle (BjNone: no ankles), dt the time since
\* the previous pass.  The countdown that follows a latched start position
\* reads nothing and is part of the pass that latches it.
BjStartPositionFrame(x, key, dt) ==
  /\ bj_pc = "trial_start"
  /\ LET age == Min(bj_age + dt, StartTimeoutSecs)
         moved == bj_prev_x # BjNone /\ ~(Abs(x - bj_prev_x) < STATIC_TOLERANCE_PX)
         count == IF x = BjNone THEN 0
                  ELSE IF bj_prev_x = BjNone THEN bj_static_count
                  ELSE IF moved THEN Max(0, bj_static_count - 1)
                  ELSE bj_static_count + 1
         latched == x # BjNone /\ count >= STATIC_FRAMES_REQUIRED
     IN
     IF ~(age < StartTimeoutSecs)
     THEN \* "Could not detect start position"
          BjEndTrial(BjNone) /\ UNCHANGED bj_saved
     ELSE IF key = "q" /\ ~latched
     THEN BjEndTrial(BjNone) /\ UNCHANGED bj_saved
     ELSE /\ bj_static_count' = count
          /\ bj_still_run' =
               IF x = BjNone \/ bj_prev_x = BjNone THEN 0
               ELSE IF Abs(x - bj_prev_x) <= STATIC_TOLERANCE_PX
               THEN Min(bj_still_run + 1, STATIC_FRAMES_REQUIRED)
               ELSE 0
          /\ bj_prev_x' = IF x = BjNone THEN bj_prev_x ELSE x
          /\ IF latched
             THEN /\ bj_start_x' = x
                  /\ bj_max_x' = x
                  /\ bj_age' = 0
                  /\ bj_pc' = "trial_track"
             ELSE /\ bj_age' = age
                  /\ UNCHANGED <<bj_start_x, bj_max_x, bj_pc>>
          /\ UNCHANGED <<bj_points, bj_main_vars, bj_took_off,
                         bj_prev_smooth, bj_stable, bj_frames>>
  /\ UNCHANGED bj_others

\* smooth_position with alpha = 0.3
smooth_position(current, previous) ==
  IF previous = BjNone THEN current
  ELSE (3 * current + 7 * previous) \div 10

\* run_trial, "CALCULATE RESULT": the value run_trial returns.
BjTrialResult(took_off, landing_x) ==
  IF ~took_off \/ landing_x = BjNone THEN BjNone
  ELSE LET start_pos == IF bj_reference_x # BjNone THEN bj_reference_x
                        ELSE bj_start_x
           distance_m == BjDistance(Abs(landing_x - start_pos), bj_px_per_meter)
       IN IF BjInvalidDistance(distance_m) THEN BjNone ELSE distance_m

\* run_trial, phase 3: one pass of the tracking loop.  ret is cap.read()'s
\* flag, x the forward ankle (BjNone: no ankles).
BjTrackFrame(ret, x, dt) ==
  /\ bj_pc = "trial_track"
  /\ LET age == Min(bj_age + dt, TrackTimeoutSecs)
         x_smooth == smooth_position(x, bj_prev_smooth)
         max_x == IF x_smooth > bj_max_x THEN x_smooth ELSE bj_max_x
         velocity == x_smooth - bj_prev_smooth
         takes_off == /\ bj_prev_smooth # BjNone
                      /\ ~bj_took_off
                      /\ Abs(velocity) > TAKEOFF_VELOCITY
         stable == IF bj_prev_smooth # BjNone /\ bj_took_off
                   THEN (IF Abs(velocity) < LANDING_VELOCITY
                         THEN bj_stable + 1 ELSE 0)
                   ELSE bj_stable
         lands == bj_prev_smooth # BjNone /\ bj_took_off
                    /\ stable >= LANDING_STABLE_FRAMES
         ends(distance) ==
           /\ BjEndTrial(distance)
           /\ bj_saved' = IF distance # BjNone THEN bj_saved + 1 ELSE bj_saved
     IN
     IF ~(age < TrackTimeoutSecs) \/ ~ret
     THEN ends(BjTrialResult(bj_took_off, BjNone))
     ELSE IF x = BjNone
     THEN /\ bj_age' = age
          /\ UNCHANGED bj_still_run
          /\ UNCHANGED <<bj_pc, bj_points, bj_main_vars, bj_static_count,
                         bj_prev_x, bj_start_x, bj_took_off, bj_prev_smooth,
                         bj_stable, bj_max_x, bj_frames>>
     ELSE IF lands
     THEN ends(BjTrialResult(TRUE, max_x))
     ELSE /\ bj_frames < MaxTrackFrames
          /\ bj_frames' = bj_frames + 1
          /\ bj_age' = age
          /\ bj_max_x' = max_x
          /\ bj_took_off' = (bj_took_off \/ takes_off)
          /\ bj_stable' = stable
          /\ bj_prev_smooth' = x_smooth
          /\ UNCHANGED bj_still_run
          /\ UNCHANGED <<bj_pc, bj_points, bj_main_vars, bj_static_count,
                         bj_prev_x, bj_start_x>>
  /\ UNCHANGED bj_others

BjCalibrate ==
  \/ \E opened \in BOOLEAN : BjOpenCamera(opened)
  \/ \E ret \in BOOLEAN : BjCalibrateFirstFrame(ret)
  \/ \E x \in BjClickX : BjCalibrateClick(x)
  \/ \E key \in {"q", "r", "none"} : BjCalibrateLoop(key)
  \/ \E text \in BjTyped : BjCalibrateInput(text)

BjTrial ==
  \/ \E key \in {" ", "q"} : BjTrialWait(key)
  \/ \E x \in BjStartX \cup {BjNone}, key \in {"q", "none"}, dt \in BjDts :
       BjStartPositionFrame(x, key, dt)
  \/ \E ret \in BOOLEAN, dt \in BjDts :
       \E x \in {BjNone} \cup
                (IF bj_prev_smooth = BjNone THEN BjTrackX
                 ELSE {bj_prev_smooth + dx : dx \in BjTrackDx}) :
         BjTrackFrame(ret, x, dt)

BjNext == BjCalibrate \/ BjTrial

(***************************************************************************)
(* ======================  HEIGHT ASSESSMENT  ===========================  *)
(* HeightAssessmentTest of height_assessment.py.  The lists the code keeps *)
(* (calibration samples, baseline frames, height measurements) are read    *)
(* only through len, median, percentile and filters, so they are kept as   *)
(* sorted sequences.  Heights are in 1/HeightScale cm; pixel inputs are    *)
(* chosen so that every division the code performs is exact.  The test is  *)
(* run for an adult (user_age above 17) and without BlazePose landmarks.   *)
(***************************************************************************)

required_stable_frames == 20
aruco_marker_size_cm == 20
visible_body_cm == 145
ArucoSamplesNeeded == 10
AiSamplesNeeded == 50
AiInliersNeeded == 35
MinVisibleBodyPx == 250
BaselineFramesNeeded == 10
FootTolerancePx == 25
HeadTolerancePx == 35
HaCountdownSecs == 3
HaMeasureSecs == 4
FinalSamplesNeeded == 30
FrameHeightPx == 720
HeightScale == 100000
MinHeightCm == 100
MaxHeightCm == 220

HaNone == -1

\* Bounds of the height model: calibration samples and height samples kept,
\* and the time in WAITING beyond which it is no longer counted.
MaxCalibrationSamples == 51
MaxHeightSamples == 31
CollectingDeadlineSecs == 10

\* Inputs of the WAITING state: the marker's size in pixels (0: no marker)
\* and the eye-to-ankle distance in pixels (0: keypoints not confident).
HaMarkerPx == {0, 80}
HaBodyPx == {0, 290, 580}
HaDts == {0, 5}

\* Inputs of the other states: the pose of the person.  y grows downwards.
\* visible: head and ankles are confident; aligned: the alignment, level
\* and neck checks of check_correct_posture and the centring check pass.
HaPose(name, foot_y, nose_y, shoulder_y, hip_y, visible, aligned) ==
  [name |-> name, foot_y |-> foot_y, nose_y |-> nose_y,
   shoulder_y |-> shoulder_y, hip_y |-> hip_y, visible |-> visible,
   aligned |-> aligned, bp_px |-> 0]

HaPoses ==
  { HaPose("still", 660, 180, 200, 400, TRUE, TRUE),
    HaPose("slouch", 660, 180, 210, 400, TRUE, TRUE),
    HaPose("lean", 660, 180, 200, 400, TRUE, FALSE),
    HaPose("hidden", 660, 180, 200, 400, FALSE, TRUE),
    HaPose("tiptoe_stretch", 630, 90, 200, 400, TRUE, TRUE),
    HaPose("lower", 690, 210, 230, 430, TRUE, TRUE) }

ha_calibration_vars == <<ha_is_calibrated, ha_pixels_per_cm,
                         ha_calibration_samples, ha_marker_samples,
                         ha_calibrated_by,
                         ha_aruco_detected>>

ha_baseline_vars == <<ha_initial_foot_y, ha_initial_nose_y,
                      ha_initial_torso_length, ha_initial_leg_length,
                      ha_baseline_frames, ha_baseline_nose_frames,
                      ha_baseline_torso_frames, ha_baseline_leg_frames>>

\* HeightAssessmentTest.__init__
HaInit ==
  /\ ha_state = "WAITING"
  /\ ha_is_calibrated = FALSE
  /\ ha_pixels_per_cm = HaNone
  /\ ha_calibration_samples = <<>>
  /\ ha_marker_samples = 0
  /\ ha_calibrated_by = "none"
  /\ ha_waiting_age = 0
  /\ ha_aruco_detected = FALSE
  /\ ha_position_stable_frames = 0
  /\ ha_countdown_age = 0
  /\ ha_last_countdown = FALSE
  /\ ha_crashed = FALSE
  /\ ha_initial_foot_y = HaNone
  /\ ha_initial_nose_y = HaNone
  /\ ha_initial_torso_length = HaNone
  /\ ha_initial_leg_length = HaNone
  /\ ha_baseline_frames = <<>>
  /\ ha_baseline_nose_frames = <<>>
  /\ ha_baseline_torso_frames = <<>>
  /\ ha_baseline_leg_frames = <<>>
  /\ ha_cheat_detected = FALSE
  /\ ha_cheat_reasons = <<>>
  /\ ha_height_measurements = <<>>
  /\ ha_measure_age = -1
  /\ ha_final_height = HaNone
  /\ ha_quit = FALSE
  /\ ha_reported = <<>>
  /\ ha_violations = {}

\* list.append on a list kept sorted
RECURSIVE SortedInsert(_, _)
SortedInsert(s, v) ==
  IF s = <<>> THEN <<v>>
  ELSE IF v <= Head(s) THEN <<v>> \o s
  ELSE <<Head(s)>> \o SortedInsert(Tail(s), v)

\* np.median of a sorted non-empty sequence
Median(s) ==
  LET n == Len(s) IN
  IF n % 2 = 1 THEN s[(n + 1) \div 2]
  ELSE (s[n \div 2] + s[n \div 2 + 1]) \div 2

\* np.percentile(s, 25 * quarters) of a sorted non-empty sequence
Percentile(s, quarters) ==
  LET pos == quarters * (Len(s) - 1)
      lo == pos \div 4 + 1
      r == pos % 4
  IN IF r = 0 THEN s[lo] ELSE s[lo] + ((s[lo + 1] - s[lo]) * r) \div 4

\* get_final_height: HaNone for None
get_final_height(measurements) ==
  IF Len(measurements) < FinalSamplesNeeded THEN HaNone
  ELSE
  LET initial_median == Median(measurements)
      Near(m) == Abs(m - initial_median) <= 5 * HeightScale
      filtered1 == SelectSeq(measurements, Near)
  IN
  IF Len(filtered1) < 20 THEN HaNone
  ELSE
  LET q1 == Percentile(filtered1, 1)
      q3 == Percentile(filtered1, 3)
      iqr == q3 - q1
      Inside(m) == m >= q1 - iqr /\ m <= q3 + iqr
      filtered2 == SelectSeq(filtered1, Inside)
  IN
  IF Len(filtered2) < 15 THEN Median(filtered1)
  ELSE
  LET start_idx == Len(filtered2) \div 5
      end_idx == (4 * Len(filtered2)) \div 5
  IN Median(SubSeq(filtered2, start_idx + 1, end_idx))

\* reset_test: what becomes of self.height_measurements
ResetMeasurements_Kept == ha_height_measurements
ResetMeasurements == <<>>

\* reset_test.  final_height, initial_leg_length, baseline_torso_frames and
\* baseline_leg_frames keep their values in the code; nothing reads them
\* before they are assigned again (on entering COMPLETE, at the tenth
\* baseline frame, and at the first baseline frame), so they are cleared
\* here.
reset_test ==
  /\ ha_state' = "WAITING"
  /\ ha_position_stable_frames' = 0
  /\ ha_countdown_age' = 0
  /\ ha_last_countdown' = FALSE
  /\ ha_initial_foot_y' = HaNone
  /\ ha_initial_nose_y' = HaNone
  /\ ha_initial_torso_length' = HaNone
  /\ ha_initial_leg_length' = HaNone
  /\ ha_baseline_frames' = <<>>
  /\ ha_baseline_nose_frames' = <<>>
  /\ ha_baseline_torso_frames' = <<>>
  /\ ha_baseline_leg_frames' = <<>>
  /\ ha_cheat_detected' = FALSE
  /\ ha_cheat_reasons' = <<>>
  /\ ha_height_measurements' = ResetMeasurements
  /\ ha_is_calibrated' = FALSE
  /\ ha_calibration_samples' = <<>>
  /\ ha_marker_samples' = 0
  /\ ha_calibrated_by' = "none"
  /\ ha_waiting_age' = 0
  /\ ha_pixels_per_cm' = HaNone
  /\ ha_measure_age' = -1
  /\ ha_final_height' = HaNone
  /\ UNCHANGED <<ha_aruco_detected, ha_quit, ha_crashed>>

\* calibrate_with_depth, the samples within 3% of the median
WithinThreePercent_All(samples) == samples
WithinThreePercent(samples) ==
  LET median == Median(samples)
      Inlier(v) == 100 * Abs(v - median) <= 3 * median
  IN SelectSeq(samples, Inlier)

\* calibrate_with_depth.  Once a scale is set the sample list is not read
\* again before reset_test empties it; it is emptied here.
calibrate_with_depth(marker_px, body_px) ==
  IF marker_px # 0
  THEN LET samples == SortedInsert(ha_calibration_samples,
                                   marker_px \div aruco_marker_size_cm)
       IN IF Len(samples) >= ArucoSamplesNeeded
          THEN /\ ha_pixels_per_cm' = Median(samples)
               /\ ha_is_calibrated' = TRUE
               /\ ha_aruco_detected' = TRUE
               /\ ha_calibrated_by' = "ARUCO"
               /\ ha_calibration_samples' = <<>>
               /\ ha_marker_samples' = 0
          ELSE /\ ha_calibration_samples' = samples
               /\ ha_marker_samples' = ha_marker_samples + 1
               /\ UNCHANGED <<ha_pixels_per_cm, ha_is_calibrated,
                              ha_aruco_detected, ha_calibrated_by>>
  ELSE IF body_px # 0 /\ body_px > MinVisibleBodyPx
  THEN LET samples == SortedInsert(ha_calibration_samples,
                                   body_px \div visible_body_cm)
           filtered == WithinThreePercent(samples)
       IN IF Len(samples) >= AiSamplesNeeded /\ Len(filtered) >= AiInliersNeeded
          THEN /\ ha_pixels_per_cm' = Median(filtered)
               /\ ha_is_calibrated' = TRUE
               /\ ha_calibrated_by' = "AI"
               /\ ha_calibration_samples' = <<>>
               /\ ha_marker_samples' = 0
               /\ UNCHANGED ha_aruco_detected
          ELSE /\ ha_calibration_samples' = samples
               /\ UNCHANGED <<ha_marker_samples, ha_pixels_per_cm,
                              ha_is_calibrated, ha_aruco_detected,
                              ha_calibrated_by>>
  ELSE UNCHANGED ha_calibration_vars

\* run_assessment, WAITING branch
HaWaitingFrame(visible, marker_px, body_px, dt) ==
  /\ ~ha_quit
  /\ ha_state = "WAITING"
  /\ Len(ha_calibration_samples) < MaxCalibrationSamples
  /\ IF visible
     THEN /\ calibrate_with_depth(marker_px, body_px)
          /\ ha_state' = IF ha_is_calibrated' THEN "POSITIONING" ELSE "WAITING"
     ELSE UNCHANGED <<ha_state, ha_calibration_vars>>
  /\ ha_waiting_age' = IF ha_state' = "WAITING"
                       THEN Min(ha_waiting_age + dt, CollectingDeadlineSecs)
                       ELSE 0
  /\ ha_reported' = <<>>
  /\ ha_violations' = {}
  /\ UNCHANGED <<ha_position_stable_frames, ha_countdown_age,
                 ha_last_countdown, ha_baseline_vars, ha_cheat_detected,
                 ha_cheat_reasons, ha_height_measurements, ha_measure_age,
                 ha_final_height, ha_quit, ha_crashed>>
  /\ UNCHANGED ha_others

\* check_correct_posture outside MEASURING
PostureOk(pose) == pose.visible /\ pose.aligned

\* check_correct_position
check_correct_position(pose) ==
  /\ PostureOk(pose)
  /\ ~(4 * pose.foot_y < 3 * FrameHeightPx)
  /\ ~(4 * pose.nose_y > FrameHeightPx)

\* run_assessment, POSITIONING branch
HaPositioningFrame(pose) ==
  /\ ~ha_quit
  /\ ha_state = "POSITIONING"
  /\ IF check_correct_position(pose)
     THEN IF ha_position_stable_frames + 1 >= required_stable_frames
          THEN /\ ha_state' = "COUNTDOWN"
               /\ ha_countdown_age' = 0
               /\ ha_position_stable_frames' = 0
          ELSE /\ ha_position_stable_frames' = ha_position_stable_frames + 1
               /\ UNCHANGED <<ha_state, ha_countdown_age>>
     ELSE /\ ha_position_stable_frames' = 0
          /\ UNCHANGED <<ha_state, ha_countdown_age>>
  /\ UNCHANGED <<ha_calibration_vars, ha_waiting_age, ha_last_countdown, ha_baseline_vars,
                 ha_cheat_detected, ha_cheat_reasons, ha_height_measurements,
                 ha_measure_age, ha_final_height, ha_quit, ha_crashed,
                 ha_reported, ha_violations>>
  /\ UNCHANGED ha_others

\* run_assessment, COUNTDOWN branch.  delattr(self, 'last_countdown') raises
\* when no earlier frame of this countdown has shown a number.
HaCountdownFrame(dt) ==
  /\ ~ha_quit
  /\ ha_state = "COUNTDOWN"
  /\ LET elapsed == Min(ha_countdown_age + dt, HaCountdownSecs) IN
     /\ ha_countdown_age' = elapsed
     /\ IF HaCountdownSecs - elapsed > 0
        THEN /\ ha_last_countdown' = TRUE
             /\ UNCHANGED <<ha_state, ha_initial_foot_y, ha_initial_nose_y,
                            ha_quit, ha_crashed>>
        ELSE /\ ha_state' = "MEASURING"
             /\ ha_initial_foot_y' = HaNone
             /\ ha_initial_nose_y' = HaNone
             /\ ha_last_countdown' = FALSE
             /\ ha_crashed' = ~ha_last_countdown
             /\ ha_quit' = ~ha_last_countdown
  /\ UNCHANGED <<ha_calibration_vars, ha_waiting_age, ha_position_stable_frames,
                 ha_initial_torso_length, ha_initial_leg_length,
                 ha_baseline_frames, ha_baseline_nose_frames,
                 ha_baseline_torso_frames, ha_baseline_leg_frames,
                 ha_cheat_detected, ha_cheat_reasons, ha_height_measurements,
                 ha_measure_age, ha_final_height, ha_reported, ha_violations>>
  /\ UNCHANGED ha_others

\* detect_cheating: the checks a pose fails once the baseline is set
TorsoOf(pose) == Abs(pose.shoulder_y - pose.hip_y)
LegOf(pose) == Abs(pose.hip_y - pose.foot_y)

FootCheat(pose) == pose.foot_y - ha_initial_foot_y < -FootTolerancePx
HeadCheat(pose) == ha_initial_nose_y - pose.nose_y > HeadTolerancePx
TorsoCheat(pose) ==
  100 * (TorsoOf(pose) - ha_initial_torso_length) > 6 * ha_initial_torso_length
LegCheat(pose) ==
  100 * (LegOf(pose) - ha_initial_leg_length) > 8 * ha_initial_leg_length
VisibilityCheat(pose) == ~pose.visible

\* every check the pose fails
CheatViolations(pose) ==
  {r \in {"TIPTOEING / HEELS / SHOES DETECTED", "BODY STRETCHING",
          "TORSO STRETCHING", "STANDING ON OBJECT", "BODY NOT VISIBLE"} :
     \/ r = "TIPTOEING / HEELS / SHOES DETECTED" /\ FootCheat(pose)
     \/ r = "BODY STRETCHING" /\ HeadCheat(pose)
     \/ r = "TORSO STRETCHING" /\ TorsoCheat(pose)
     \/ r = "STANDING ON OBJECT" /\ LegCheat(pose)
     \/ r = "BODY NOT VISIBLE" /\ VisibilityCheat(pose)}

\* detect_cheating: the reasons appended to cheat_reasons for a pose; each
\* failing check returns at once.
detect_cheating(pose) ==
  IF FootCheat(pose) THEN <<"TIPTOEING / HEELS / SHOES DETECTED">>
  ELSE IF HeadCheat(pose) THEN <<"BODY STRETCHING">>
  ELSE IF TorsoCheat(pose) THEN <<"TORSO STRETCHING">>
  ELSE IF LegCheat(pose) THEN <<"STANDING ON OBJECT">>
  ELSE IF VisibilityCheat(pose) THEN <<"BODY NOT VISIBLE">>
  ELSE <<>>

\* calculate_height_yolo: HaNone for None.  The highest head point is at
\* the nose's height.
calculate_height_yolo(pose) ==
  IF ~ha_is_calibrated \/ ha_pixels_per_cm = HaNone \/ ~pose.visible
  THEN HaNone
  ELSE LET detected_height_px == Abs(pose.foot_y - pose.nose_y)
           per_mille == IF ha_aruco_detected THEN 1000 + 70 + 60
                        ELSE 980 + 75 + 65
           total_height_cm ==
             (detected_height_px * per_mille * (HeightScale \div 1000))
               \div ha_pixels_per_cm
       IN IF MinHeightCm * HeightScale <= total_height_cm
             /\ total_height_cm <= MaxHeightCm * HeightScale
          THEN total_height_cm ELSE HaNone

\* calculate_height_blazepose: HaNone for None (bp_px = 0: no landmarks)
calculate_height_blazepose(pose) ==
  IF ~ha_is_calibrated \/ ha_pixels_per_cm = HaNone \/ pose.bp_px = 0
  THEN HaNone
  ELSE LET per_mille == IF ha_aruco_detected THEN 1000 + 70 + 35
                        ELSE 990 + 75 + 40
           total_height_cm ==
             (pose.bp_px * per_mille * (HeightScale \div 1000))
               \div ha_pixels_per_cm
       IN IF MinHeightCm * HeightScale <= total_height_cm
             /\ total_height_cm <= MaxHeightCm * HeightScale
          THEN total_height_cm ELSE HaNone

\* run_assessment, MEASURING branch: the ensemble of the two models
HaEnsemble(height_yolo, height_blazepose) ==
  IF height_yolo # HaNone /\ height_blazepose # HaNone
  THEN (45 * height_yolo + 55 * height_blazepose) \div 100
  ELSE IF height_yolo # HaNone THEN height_yolo
  ELSE height_blazepose

\* check_correct_posture in MEASURING, given the initial_torso_length it
\* finds (HaNone: no attribute)
MeasuringPostureOk(pose, initial_torso_length) ==
  /\ PostureOk(pose)
  /\ \/ initial_torso_length = HaNone
     \/ ~(100 * Abs(TorsoOf(pose) - initial_torso_length)
            > 8 * initial_torso_length)

\* what check_correct_posture leaves in initial_torso_length
PostureTorso(pose, initial_torso_length) ==
  IF PostureOk(pose) /\ initial_torso_length = HaNone THEN TorsoOf(pose)
  ELSE initial_torso_length

\* run_assessment, MEASURING branch
HaMeasuringFrame(pose, dt) ==
  /\ ~ha_quit
  /\ ha_state = "MEASURING"
  /\ IF ha_initial_foot_y # HaNone /\ detect_cheating(pose) # <<>>
     THEN \* cheat: the reason is printed, then reset_test() and continue
          /\ ha_reported' = detect_cheating(pose)
          /\ ha_violations' = CheatViolations(pose)
          /\ reset_test
     ELSE
     LET collecting == ha_initial_foot_y = HaNone
         frames == SortedInsert(ha_baseline_frames, pose.foot_y)
         nose_frames == SortedInsert(ha_baseline_nose_frames, pose.nose_y)
         torso_frames == SortedInsert(ha_baseline_torso_frames, TorsoOf(pose))
         leg_frames == SortedInsert(ha_baseline_leg_frames, LegOf(pose))
         set_now == collecting /\ Len(frames) >= BaselineFramesNeeded
         torso_seen == IF set_now THEN Median(torso_frames)
                       ELSE ha_initial_torso_length
         posture_ok == MeasuringPostureOk(pose, torso_seen)
         height == IF posture_ok
                   THEN HaEnsemble(calculate_height_yolo(pose),
                                   calculate_height_blazepose(pose))
                   ELSE HaNone
         got == height # HaNone /\ height # 0
         measurements == IF got THEN SortedInsert(ha_height_measurements, height)
                         ELSE ha_height_measurements
         age == IF ha_measure_age < 0 THEN (IF got THEN 0 ELSE -1)
                ELSE Min(ha_measure_age + dt, HaMeasureSecs + 1)
         final_height == get_final_height(measurements)
     IN
     /\ got => Len(ha_height_measurements) < MaxHeightSamples
     /\ ha_reported' = <<>>
     /\ ha_violations' = {}
     /\ IF collecting
        THEN IF set_now
             THEN /\ ha_initial_foot_y' = Median(frames)
                  /\ ha_initial_nose_y' = Median(nose_frames)
                  /\ ha_initial_leg_length' = Median(leg_frames)
                  /\ ha_baseline_frames' = <<>>
                  /\ ha_baseline_nose_frames' = <<>>
                  /\ ha_baseline_torso_frames' = <<>>
                  /\ ha_baseline_leg_frames' = <<>>
             ELSE /\ ha_baseline_frames' = frames
                  /\ ha_baseline_nose_frames' = nose_frames
                  /\ ha_baseline_torso_frames' = torso_frames
                  /\ ha_baseline_leg_frames' = leg_frames
                  /\ UNCHANGED <<ha_initial_foot_y, ha_initial_nose_y,
                                 ha_initial_leg_length>>
        ELSE UNCHANGED <<ha_initial_foot_y, ha_initial_nose_y,
                         ha_initial_leg_length, ha_baseline_frames,
                         ha_baseline_nose_frames, ha_baseline_torso_frames,
                         ha_baseline_leg_frames>>
     /\ ha_initial_torso_length' = PostureTorso(pose, torso_seen)
     /\ ha_height_measurements' = measurements
     /\ ha_measure_age' = age
     /\ IF got /\ age > HaMeasureSecs /\ final_height # HaNone
        THEN ha_state' = "COMPLETE" /\ ha_final_height' = final_height
        ELSE UNCHANGED <<ha_state, ha_final_height>>
     /\ UNCHANGED <<ha_calibration_vars, ha_waiting_age, ha_position_stable_frames,
                    ha_countdown_age, ha_last_countdown, ha_cheat_detected,
                    ha_cheat_reasons, ha_quit, ha_crashed>>
  /\ UNCHANGED ha_others

\* run_assessment, COMPLETE branch: the result is only displayed
HaCompleteFrame ==
  /\ ~ha_quit
  /\ ha_state = "COMPLETE"
  /\ ha_reported' = <<>>
  /\ ha_violations' = {}
  /\ UNCHANGED <<ha_state, ha_calibration_vars, ha_waiting_age, ha_position_stable_frames,
                 ha_countdown_age, ha_last_countdown, ha_baseline_vars,
                 ha_cheat_detected, ha_cheat_reasons, ha_height_measurements,
                 ha_measure_age, ha_final_height, ha_quit, ha_crashed>>
  /\ UNCHANGED ha_others

\* run_assessment, "No person detected": only time passes
HaNoPersonFrame(dt) ==
  /\ ~ha_quit
  /\ ha_countdown_age' = IF ha_state = "COUNTDOWN"
                         THEN Min(ha_countdown_age + dt, HaCountdownSecs)
                         ELSE ha_countdown_age
  /\ ha_measure_age' = IF ha_state = "MEASURING" /\ ha_measure_age >= 0
                       THEN Min(ha_measure_age + dt, HaMeasureSecs + 1)
                       ELSE ha_measure_age
  /\ ha_waiting_age' = IF ha_state = "WAITING"
                       THEN Min(ha_waiting_age + dt, CollectingDeadlineSecs)
                       ELSE ha_waiting_age
  /\ ha_reported' = <<>>
  /\ ha_violations' = {}
  /\ UNCHANGED <<ha_state, ha_calibration_vars, ha_position_stable_frames,
                 ha_last_countdown, ha_baseline_vars, ha_cheat_detected,
                 ha_cheat_reasons, ha_height_measurements, ha_final_height,
                 ha_quit, ha_crashed>>
  /\ UNCHANGED ha_others

\* run_assessment: key 'r'
HaKeyReset ==
  /\ ~ha_quit
  /\ reset_test
  /\ ha_reported' = <<>>
  /\ ha_violations' = {}
  /\ UNCHANGED ha_others

\* run_assessment: key 'q', or the camera gives no frame
HaKeyQuit ==
  /\ ~ha_quit
  /\ ha_quit' = TRUE
  /\ UNCHANGED <<ha_state, ha_calibration_vars, ha_waiting_age, ha_position_stable_frames,
                 ha_countdown_age, ha_last_countdown, ha_baseline_vars,
                 ha_cheat_detected, ha_cheat_reasons, ha_height_measurements,
                 ha_measure_age, ha_final_height, ha_crashed, ha_reported,
                 ha_violations>>
  /\ UNCHANGED ha_others

HaFrame ==
  \/ \E visible \in BOOLEAN, marker_px \in HaMarkerPx, body_px \in HaBodyPx,
        dt \in HaDts :
       HaWaitingFrame(visible, marker_px, body_px, dt)
  \/ \E pose \in HaPoses : HaPositioningFrame(pose)
  \/ \E dt \in HaDts : HaCountdownFrame(dt)
  \/ \E pose \in HaPoses, dt \in HaDts : HaMeasuringFrame(pose, dt)
  \/ HaCompleteFrame
  \/ \E dt \in HaDts : HaNoPersonFrame(dt)

HaKey == HaKeyReset \/ HaKeyQuit

HaNext == HaFrame \/ HaKey

(***************************************************************************)
(* ==========================  SPRINT SERVER  ===========================  *)
(* app_single.py: a Flask application whose handlers share the module's    *)
(* globals.  One action is one request served, or one pass of the          *)
(* generate_frames loop that streams the live camera.  app.py has the      *)
(* same globals and the same handlers for every request modelled here.     *)
(* The read-only requests (/, get_runner_position, get_video_frame) assign *)
(* no global and are left out.  Times are in whole seconds; a request or a *)
(* frame arrives at least one second after the previous one.               *)
(***************************************************************************)

\* None, for start_line, finish_line, start_time and the replies.
SpNone == -1

\* The length of the course in metres, and the hundredths kept by round().
SprintMetres == 30
SpeedScale == 100

\* Bound of the sprint model: the largest age of start_time followed.
MaxRunSecs == 4

\* Inputs: line positions posted by the page, the hip position seen in a
\* camera frame (0: no hips), the time since the previous step, the file
\* posted to upload_video.
SpLines == {100, 500}
SpHipX == {0, 300, 520}
SpDts == {1, 2}
SpFiles == {"missing", "video", "unreadable"}

\* The module's globals when the server starts.
SpInit ==
  /\ sp_start_line = SpNone
  /\ sp_finish_line = SpNone
  /\ sp_start_age = SpNone
  /\ sp_runner_started = FALSE
  /\ sp_runner_finished = FALSE
  /\ sp_video_cap = "None"
  /\ sp_request = ""
  /\ sp_reply_time = SpNone
  /\ sp_reply_speed = SpNone
  /\ sp_frame_pc = "loop"

\* time.time() - start_time after dt more seconds
SpAged(dt) == IF sp_start_age = SpNone THEN SpNone ELSE sp_start_age + dt

\* generate_frames / analyze_video: the hips have crossed the finish line
SpCrossed(hip_x) ==
  \/ sp_start_line < sp_finish_line /\ hip_x >= sp_finish_line
  \/ sp_start_line > sp_finish_line /\ hip_x <= sp_finish_line

\* generate_frames: one pass of the loop over a camera frame.  With
\* finish_line set and start_line None the comparison raises TypeError
\* before anything is assigned.
SpFrame(hip_x, dt) ==
  /\ SpAged(dt) <= MaxRunSecs
  /\ sp_start_age' = SpAged(dt)
  /\ sp_runner_finished' =
       IF /\ sp_runner_started /\ ~sp_runner_finished
          /\ hip_x > 0
          /\ sp_finish_line # SpNone
          /\ sp_start_line # SpNone
          /\ SpCrossed(hip_x)
       THEN TRUE
       ELSE sp_runner_finished
  /\ sp_request' = "video_feed"
  /\ UNCHANGED <<sp_start_line, sp_finish_line, sp_runner_started,
                 sp_video_cap, sp_reply_time, sp_reply_speed>>
  /\ UNCHANGED sp_frame_pc
  /\ UNCHANGED sp_others

\* calibrate
SpCalibrate(has_start, start, has_finish, finish) ==
  /\ sp_start_line' = IF has_start THEN start ELSE sp_start_line
  /\ sp_finish_line' = IF has_finish THEN finish ELSE sp_finish_line
  /\ sp_request' = "calibrate"
  /\ UNCHANGED <<sp_start_age, sp_runner_started, sp_runner_finished,
                 sp_video_cap, sp_reply_time, sp_reply_speed>>
  /\ UNCHANGED sp_frame_pc
  /\ UNCHANGED sp_others

\* start_test
SpStartTest ==
  /\ sp_runner_started' = TRUE
  /\ sp_runner_finished' = FALSE
  /\ sp_start_age' = 0
  /\ sp_request' = "start_test"
  /\ sp_reply_time' = SpNone
  /\ sp_reply_speed' = SpNone
  /\ UNCHANGED <<sp_start_line, sp_finish_line, sp_video_cap>>
  /\ UNCHANGED sp_frame_pc
  /\ UNCHANGED sp_others

\* check_status: speed_mps = 30 / elapsed_time, in hundredths
SpSpeed(elapsed) == (SprintMetres * SpeedScale) \div elapsed

\* check_status
SpCheckStatus(dt) ==
  /\ SpAged(dt) <= MaxRunSecs
  /\ sp_start_age' = SpAged(dt)
  /\ IF sp_runner_finished /\ sp_start_age # SpNone
     THEN /\ sp_reply_time' = SpAged(dt)
          /\ sp_reply_speed' = SpSpeed(SpAged(dt))
     ELSE UNCHANGED <<sp_reply_time, sp_reply_speed>>
  /\ sp_request' = "check_status"
  /\ UNCHANGED <<sp_start_line, sp_finish_line, sp_runner_started,
                 sp_runner_finished, sp_video_cap>>
  /\ UNCHANGED sp_frame_pc
  /\ UNCHANGED sp_others

\* reset
SpReset ==
  /\ sp_start_age' = SpNone
  /\ sp_runner_started' = FALSE
  /\ sp_runner_finished' = FALSE
  /\ sp_request' = "reset"
  /\ sp_reply_time' = SpNone
  /\ sp_reply_speed' = SpNone
  /\ UNCHANGED <<sp_start_line, sp_finish_line, sp_video_cap>>
  /\ UNCHANGED sp_frame_pc
  /\ UNCHANGED sp_others

\* upload_video: a request without a file returns early; otherwise the
\* capture object is replaced, opened or not
SpUploadVideo(file) ==
  /\ sp_video_cap' = CASE file = "missing" -> sp_video_cap
                        [] file = "video" -> "opened"
                        [] OTHER -> "unopened"
  /\ sp_request' = "upload_video"
  /\ UNCHANGED <<sp_start_line, sp_finish_line, sp_start_age,
                 sp_runner_started, sp_runner_finished, sp_reply_time,
                 sp_reply_speed>>
  /\ UNCHANGED sp_frame_pc
  /\ UNCHANGED sp_others

\* analyze_video: the lines are assigned before the video is read; the
\* frames of the video only feed the handler's locals
SpAnalyzeVideo(start, finish) ==
  /\ IF sp_video_cap = "None"
     THEN UNCHANGED <<sp_start_line, sp_finish_line>>
     ELSE sp_start_line' = start /\ sp_finish_line' = finish
  /\ sp_request' = "analyze_video"
  /\ UNCHANGED <<sp_start_age, sp_runner_started, sp_runner_finished,
                 sp_video_cap, sp_reply_time, sp_reply_speed>>
  /\ UNCHANGED sp_frame_pc
  /\ UNCHANGED sp_others

\* reset_upload
SpResetUpload ==
  /\ sp_video_cap' = "None"
  /\ sp_start_line' = SpNone
  /\ sp_finish_line' = SpNone
  /\ sp_request' = "reset_upload"
  /\ UNCHANGED <<sp_start_age, sp_runner_started, sp_runner_finished,
                 sp_reply_time, sp_reply_speed>>
  /\ UNCHANGED sp_frame_pc
  /\ UNCHANGED sp_others

\* generate_frames, as a thread beside the request threads: the pass up to
\* the test 'if runner_started and not runner_finished'
SpFrameRead(dt) ==
  /\ sp_frame_pc = "loop"
  /\ SpAged(dt) <= MaxRunSecs
  /\ sp_start_age' = SpAged(dt)
  /\ sp_frame_pc' = IF sp_runner_started /\ ~sp_runner_finished
                    THEN "tracking" ELSE "loop"
  /\ sp_request' = "video_feed"
  /\ UNCHANGED <<sp_start_line, sp_finish_line, sp_runner_started,
                 sp_runner_finished, sp_video_cap, sp_reply_time,
                 sp_reply_speed>>
  /\ UNCHANGED sp_others

\* generate_frames, as a thread: the body of that test, from the hips to
\* 'if crossed and not runner_finished: runner_finished = True'
SpFrameTrack(hip_x) ==
  /\ sp_frame_pc = "tracking"
  /\ sp_runner_finished' =
       IF /\ hip_x > 0
          /\ sp_finish_line # SpNone
          /\ sp_start_line # SpNone
          /\ SpCrossed(hip_x)
          /\ ~sp_runner_finished
       THEN TRUE
       ELSE sp_runner_finished
  /\ sp_frame_pc' = "loop"
  /\ UNCHANGED <<sp_start_line, sp_finish_line, sp_start_age,
                 sp_runner_started, sp_video_cap, sp_request, sp_reply_time,
                 sp_reply_speed>>
  /\ UNCHANGED sp_others

SpNext ==
  \/ \E hip_x \in SpHipX, dt \in SpDts : SpFrame(hip_x, dt)
  \/ \E has_start, has_finish \in BOOLEAN, start, finish \in SpLines :
       SpCalibrate(has_start, start, has_finish, finish)
  \/ SpStartTest
  \/ \E dt \in SpDts : SpCheckStatus(dt)
  \/ SpReset
  \/ \E file \in SpFiles : SpUploadVideo(file)
  \/ \E start, finish \in SpLines : SpAnalyzeVideo(start, finish)
  \/ SpResetUpload

\* The threaded server (app.run(threaded=True)): the generate_frames thread
\* of a /video_feed response beside the threads of the requests.  A request
\* is served in one step; only the frame pass is split, at its test.
SpThreadsNext ==
  \/ \E dt \in SpDts : SpFrameRead(dt)
  \/ \E hip_x \in SpHipX : SpFrameTrack(hip_x)
  \/ \E has_start, has_finish \in BOOLEAN, start, finish \in SpLines :
       SpCalibrate(has_start, start, has_finish, finish)
  \/ SpStartTest
  \/ \E dt \in SpDts : SpCheckStatus(dt)
  \/ SpReset

(***************************************************************************)
(* ====================  BROAD-JUMP SCALE ARITHMETIC  ===================  *)
(* The arithmetic of calibrate_system and run_trial on its own: a pixel    *)
(* distance between the two clicks and a typed real distance give the      *)
(* scale, and the scale turns the pixel span of a jump into a distance.    *)
(***************************************************************************)

\* Inputs: the pixel distance between the clicks, the typed distance in
\* cm, the pixel span of the jump.
ScPxDistances == {250, 500, 750, 1000}
ScRealCms == {50, 100, 200, 250}
ScSpans == {0, 110, 550, 1100}

\* Nothing calibrated, nothing measured: any of the inputs.
ScInputs ==
  /\ sc_px_distance \in ScPxDistances
  /\ sc_real_cm \in ScRealCms
  /\ sc_span_px \in ScSpans
  /\ sc_px_per_meter = BjNone
  /\ sc_distance_mm = BjNone

\* The state the programs' runs leave the arithmetic in.
ScInit ==
  /\ sc_px_distance = 500
  /\ sc_real_cm = 100
  /\ sc_span_px = 550
  /\ sc_px_per_meter = BjNone
  /\ sc_distance_mm = BjNone

\* calibrate_system: px_per_meter = px_distance / real_distance
ScCalibrate ==
  /\ sc_px_per_meter = BjNone
  /\ ~BjNonPositive(sc_real_cm)
  /\ sc_px_per_meter' = BjScale(sc_px_distance, sc_real_cm)
  /\ UNCHANGED <<sc_px_distance, sc_real_cm, sc_span_px, sc_distance_mm>>
  /\ UNCHANGED sc_others

\* run_trial: distance_m = px_distance / px_per_meter
ScMeasure ==
  /\ sc_px_per_meter # BjNone
  /\ sc_distance_mm = BjNone
  /\ sc_distance_mm' = BjDistance(sc_span_px, sc_px_per_meter)
  /\ UNCHANGED <<sc_px_distance, sc_real_cm, sc_span_px, sc_px_per_meter>>
  /\ UNCHANGED sc_others

ScNext == ScCalibrate \/ ScMeasure

(***************************************************************************)
(* =====================  SHUTTLE-RUN AGE GROUPS  =======================  *)
(* ScoringEngine.get_age_group of demo_shuttle_run.py; the one of          *)
(* shuttle_run_analyzer.py has the same table and the same body.           *)
(***************************************************************************)

\* ScoringEngine.AGE_GROUPS, in the order of the dictionary.
AGE_GROUPS ==
  << [min_age |-> 4, max_age |-> 5, group |-> "U6"],
     [min_age |-> 6, max_age |-> 7, group |-> "U8"],
     [min_age |-> 8, max_age |-> 9, group |-> "U10"],
     [min_age |-> 10, max_age |-> 11, group |-> "U12"],
     [min_age |-> 12, max_age |-> 13, group |-> "U14"],
     [min_age |-> 14, max_age |-> 15, group |-> "U16"],
     [min_age |-> 16, max_age |-> 17, group |-> "U18"],
     [min_age |-> 18, max_age |-> 19, group |-> "U20"],
     [min_age |-> 20, max_age |-> 34, group |-> "Senior"],
     [min_age |-> 35, max_age |-> 44, group |-> "Masters-35-44"],
     [min_age |-> 45, max_age |-> 54, group |-> "Masters-45-54"],
     [min_age |-> 55, max_age |-> 120, group |-> "Masters-55-plus"] >>

\* The bands of AGE_GROUPS an age lies in.
AgMatching(age) ==
  {i \in 1..Len(AGE_GROUPS) :
     AGE_GROUPS[i].min_age <= age /\ age <= AGE_GROUPS[i].max_age}

\* ScoringEngine.get_age_group: the first band in the order of the
\* dictionary, "Senior" when there is none.
get_age_group_Senior(age) == "Senior"
get_age_group(age) ==
  IF AgMatching(age) = {} THEN "Senior"
  ELSE AGE_GROUPS[CHOOSE i \in AgMatching(age) :
                    \A j \in AgMatching(age) : i <= j].group

\* Bound of the age-group model: the largest age passed.
MaxAge == 125

\* Inputs: the age passed to get_age_group.
AgAges == 0..MaxAge

\* Before the call, on any age.
AgInputs == ag_age \in AgAges /\ ag_group = ""

\* The state the programs' runs leave the call in.
AgInit == ag_age = 4 /\ ag_group = ""

\* age_group = ScoringEngine.get_age_group(age)
AgClassify ==
  /\ ag_group = ""
  /\ ag_group' = get_age_group(ag_age)
  /\ UNCHANGED ag_age
  /\ UNCHANGED ag_others

(***************************************************************************)
(* ======================  SHUTTLE-RUN ANALYZER  ========================  *)
(* shuttle_run_analyzer.py: the FastAPI handlers and the Celery task       *)
(* process_video_task.  A session id is the number of the upload.  The     *)
(* video is what the task's pipeline reads from it: its frame rate and the *)
(* x of the foot centre in each frame; the feet stay at the height of the  *)
(* lines, so the distance to a line is the distance in x.  Times are in    *)
(* hundredths of a second.                                                 *)
(***************************************************************************)

\* Settings, and known_distance_m of calibrate_from_markers, in cm.
min_fps == 25
TouchThresholdCm == 30
KnownDistanceCm == 1000

\* CalibrationEngine.calibrate_from_markers: the lines, and the pixels
\* between them
line_a_px == <<100, 500>>
line_b_px == <<900, 500>>
PixelDistance == Abs(line_b_px[1] - line_a_px[1])

\* Bounds of the shuttle-run model: uploads, and frames of a video.
MaxJobs == 2
MaxPoses == 4

\* Inputs: the frame rate of a video, the foot centre of a frame, the age
\* posted with the upload.
ShSessions == 1..MaxJobs
ShFps == {20, 25}
ShFootX == {100, 110, 500, 900}
ShAges == {10, 20}
ShPoses == UNION {[1..n -> ShFootX] : n \in 0..MaxPoses}

\* What a task that has not returned holds, and the return of the task when
\* the preflight fails or an exception is caught.
ShNoReturn == [error |-> "none", touches_detected |-> 0,
               total_time |-> 0, age_group |-> ""]
ShErrorReturn == [error |-> "Preflight failed", touches_detected |-> 0,
                  total_time |-> 0, age_group |-> ""]

\* An empty table, no task, no request yet.
ShInit ==
  /\ sh_jobs = [s \in ShSessions |-> [status |-> "absent", age |-> 0,
                                       result |-> "null"]]
  /\ sh_tasks = [s \in ShSessions |-> [state |-> "none", age |-> 0,
                                        return |-> ShNoReturn]]
  /\ sh_reply = [code |-> 0, body |-> "none"]

\* detect_touches: dist <= settings.touch_distance_threshold_m, with
\* dist = |x - line x| * px_to_m and px_to_m = known_distance / pixel_distance
ShNear(foot_x, line) ==
  Abs(foot_x - line[1]) * KnownDistanceCm <= TouchThresholdCm * PixelDistance

\* EventDetector.detect_touches: the TouchEvent of each frame in the order
\* of the frames, a frame near no line giving none
RECURSIVE detect_touches(_, _, _)
detect_touches(poses, idx, fps) ==
  IF idx > Len(poses) THEN <<>>
  ELSE LET time_s == ((idx - 1) * 100) \div fps
           rest == detect_touches(poses, idx + 1, fps)
       IN IF ShNear(poses[idx], line_a_px)
          THEN <<[line |-> "A", frame_idx |-> idx - 1, time_s |-> time_s]>>
               \o rest
          ELSE IF ShNear(poses[idx], line_b_px)
          THEN <<[line |-> "B", frame_idx |-> idx - 1, time_s |-> time_s]>>
               \o rest
          ELSE rest

\* process_video_task: what the task returns
ShTaskReturn(fps, poses, age) ==
  IF fps < min_fps THEN ShErrorReturn
  ELSE LET touches == detect_touches(poses, 1, fps) IN
       [error |-> "none",
        touches_detected |-> Len(touches),
        total_time |-> IF Len(touches) >= 4
                       THEN touches[4].time_s - touches[1].time_s ELSE 0,
        age_group |-> get_age_group(age)]

\* upload_video: an unsupported format is refused; otherwise a pending job
\* row is committed and the task queued
ShUploadVideo(format_ok, age) ==
  /\ IF ~format_ok
     THEN /\ sh_reply' = [code |-> 400, body |-> "Unsupported video format"]
          /\ UNCHANGED <<sh_jobs, sh_tasks>>
     ELSE \E session \in ShSessions :
            /\ sh_jobs[session].status = "absent"
            /\ \A s \in ShSessions : s < session => sh_jobs[s].status # "absent"
            /\ sh_jobs' = [sh_jobs EXCEPT ![session] =
                             [status |-> "pending", age |-> age,
                              result |-> "null"]]
            /\ sh_tasks' = [sh_tasks EXCEPT ![session] =
                              [state |-> "queued", age |-> age,
                               return |-> ShNoReturn]]
            /\ sh_reply' = [code |-> 200, body |-> "queued"]
  /\ UNCHANGED sh_others

\* process_video_task run by the Celery worker: the return value goes to
\* the result backend; the job row is not touched
ShProcessVideoTask(session, fps, poses) ==
  /\ sh_tasks[session].state = "queued"
  /\ sh_tasks' = [sh_tasks EXCEPT ![session] =
                    [state |-> "returned", age |-> @.age,
                     return |-> ShTaskReturn(fps, poses, @.age)]]
  /\ UNCHANGED <<sh_jobs, sh_reply>>
  /\ UNCHANGED sh_others

\* The worker on the task of a session, whatever the video
ShWorker(session) ==
  \E fps \in ShFps, poses \in ShPoses :
    ShProcessVideoTask(session, fps, poses)

\* get_status
ShGetStatus(session) ==
  /\ sh_reply' = IF sh_jobs[session].status = "absent"
                 THEN [code |-> 404, body |-> "Job not found"]
                 ELSE [code |-> 200, body |-> sh_jobs[session].status]
  /\ UNCHANGED <<sh_jobs, sh_tasks>>
  /\ UNCHANGED sh_others

\* get_result
ShGetResult(session) ==
  /\ sh_reply' = IF sh_jobs[session].status = "absent"
                 THEN [code |-> 404, body |-> "Job not found"]
                 ELSE IF sh_jobs[session].status # "completed"
                 THEN [code |-> 400, body |-> sh_jobs[session].status]
                 ELSE [code |-> 200, body |-> sh_jobs[session].result]
  /\ UNCHANGED <<sh_jobs, sh_tasks>>
  /\ UNCHANGED sh_others

ShNext ==
  \/ \E format_ok \in BOOLEAN, age \in ShAges : ShUploadVideo(format_ok, age)
  \/ \E session \in ShSessions :
       \/ ShWorker(session)
       \/ ShGetStatus(session)
       \/ ShGetResult(session)

(***************************************************************************)
(* ===================  VERTICAL-JUMP JUMP PHASES  ======================  *)
(* FeatureExtractor.detect_phases and the indexing of extract_from_pose.   *)
(* A pose is its centre-of-mass y, in hundredths of the normalised image   *)
(* height; frame indices count from 0 as in the source.                    *)
(***************************************************************************)

\* detect_phases: a sequence shorter than this is split in quarters, and a
\* descent of more than 0.1 after the peak is the landing.
ShortSequence == 10
DescentThreshold == 10

\* Bound of the jump-phase model: the longest pose sequence.
MaxPoseFrames == 10

\* Inputs: the centre-of-mass y of a pose, and the pose sequences.
FeHeights == {40, 45, 60}
FeSequences == UNION {[1..n -> FeHeights] : n \in 1..MaxPoseFrames}

\* np.argmin(com_heights): the first index of the smallest value
FeArgMin(h) ==
  CHOOSE i \in 0..(Len(h) - 1) :
    /\ \A j \in 0..(Len(h) - 1) : h[i + 1] <= h[j + 1]
    /\ \A j \in 0..(i - 1) : h[j + 1] > h[i + 1]

\* FeatureExtractor.detect_phases on the com_heights h
detect_phases(h) ==
  LET n == Len(h) IN
  IF n < ShortSequence
  THEN [setup |-> <<0, n \div 4>>,
        takeoff |-> <<n \div 4, n \div 2>>,
        peak |-> <<n \div 2, (3 * n) \div 4>>,
        landing |-> <<(3 * n) \div 4, n - 1>>]
  ELSE LET peak_frame == FeArgMin(h)
           local_max == {i \in 1..(peak_frame - 1) :
                           h[i + 1] > h[i] /\ h[i + 1] > h[i + 2]}
           takeoff_frame ==
             IF local_max = {} THEN 0
             ELSE CHOOSE i \in local_max : \A j \in local_max : i <= j
           descent == {i \in (peak_frame + 1)..(n - 2) :
                         h[i + 1] > h[peak_frame + 1] + DescentThreshold}
           landing_frame ==
             IF descent = {} THEN peak_frame + 1
             ELSE CHOOSE i \in descent : \A j \in descent : i <= j
       IN [setup |-> <<0, takeoff_frame>>,
           takeoff |-> <<takeoff_frame, peak_frame>>,
           peak |-> <<peak_frame, landing_frame>>,
           landing |-> <<landing_frame, n - 1>>]

\* Before the call, on any pose sequence.
FeInputs ==
  /\ fe_com_heights \in FeSequences
  /\ fe_phases = "none"
  /\ fe_outcome = "none"

\* The state the programs' runs leave the call in.
FeInit ==
  /\ fe_com_heights = <<60>>
  /\ fe_phases = "none"
  /\ fe_outcome = "none"

\* extract_from_pose: detect_phases, then pose_sequence[...] at the start
\* of setup, the end of take-off, the start of peak and of landing
FeExtractFromPose ==
  /\ fe_outcome = "none"
  /\ LET phases == detect_phases(fe_com_heights)
         n == Len(fe_com_heights)
     IN /\ fe_phases' = phases
        /\ fe_outcome' =
             IF \A idx \in {phases.setup[1], phases.takeoff[2],
                             phases.peak[1], phases.landing[1]} : idx < n
             THEN "features" ELSE "IndexError"
  /\ UNCHANGED fe_com_heights
  /\ UNCHANGED fe_others

(***************************************************************************)
(* =========================  SPECIFICATIONS  ===========================  *)
(* The programs are separate processes; each specification runs one        *)
(* of them from its constructed state and leaves the others alone.         *)
(***************************************************************************)

vars == <<su_vars, sr_vars, bj_vars, ha_vars, sp_vars, sc_vars, ag_vars,
          sh_vars, fe_vars>>

\* The programs before their first step.
Programs == SuInit /\ SrInit /\ BjInit /\ HaInit /\ SpInit

Init == Programs /\ ScInit /\ AgInit /\ ShInit /\ FeInit

SpecSitup == Init /\ [][SuNext]_vars
SpecSitReach == Init /\ [][SrNext]_vars
SpecBroadJump == Init /\ [][BjNext]_vars
SpecHeight == Init /\ [][HaNext]_vars
SpecSprint == Init /\ [][SpNext]_vars
SpecSprintThreads == Init /\ [][SpThreadsNext]_vars

\* Either the sit-up counter or the sit-and-reach test is run.
TerminalNext ==
  \/ SrInit /\ SuNext
  \/ SuInit /\ SrNext

\* The two programs that track a pose for a rep or a jump: a run is a run
\* of the sit-up counter or a run of the broad-jump test.
PoseNext ==
  \/ BjInit /\ SuNext
  \/ SuInit /\ BjNext

SpecTerminal == Init /\ [][TerminalNext]_vars
SpecPose == Init /\ [][PoseNext]_vars

\* The scale arithmetic on any of its inputs.
ScaleInit == Programs /\ ScInputs /\ AgInit /\ ShInit /\ FeInit
SpecScale == ScaleInit /\ [][ScNext]_vars

\* get_age_group on any age.
AgeGroupInit == Programs /\ ScInit /\ AgInputs /\ ShInit /\ FeInit
SpecAgeGroup == AgeGroupInit /\ [][AgClassify]_vars

\* extract_from_pose on any pose sequence.
FeaturesInit == Programs /\ ScInit /\ AgInit /\ ShInit /\ FeInputs
SpecFeatures == FeaturesInit /\ [][FeExtractFromPose]_vars

\* The shuttle-run analyzer: requests in any order; a running Celery worker
\* takes every queued task, and a client may always ask again.
SpecShuttle == Init /\ [][ShNext]_vars
LiveSpecShuttle ==
  /\ SpecShuttle
  /\ \A session \in ShSessions :
       /\ WF_vars(ShWorker(session))
       /\ WF_vars(ShGetStatus(session))
       /\ WF_vars(ShGetResult(session))

(***************************************************************************)
(* ============================  CLAIMS  ================================  *)
(***************************************************************************)

\* A RUNNING frame with landmarks that ends before the test duration is
\* over; on such a step su_elapsed' - su_elapsed is the time since the
\* previous frame.
SuTimedFrame ==
  /\ su_phase = "RUNNING"
  /\ su_frames' = su_frames + 1
  /\ su_log' # "no_body"
  /\ su_elapsed' < SuElapsedCap

\* The time the DOWN/UP state has been held, as the frame of the step sees it.
SuHeld == su_state_age + (su_elapsed' - su_elapsed)

C2_CountedOnlyIfAllPass ==
  [][su_rep_count' > su_rep_count =>
       LET mn == Min(su_min_angle_in_cycle, su_current_angle')
           mx == Max(su_max_angle_in_cycle, su_current_angle')
       IN /\ su_rep_count' = su_rep_count + 1
          /\ su_state = "UP" /\ su_state' = "DOWN"
          /\ su_elapsed' < SuElapsedCap => SuHeld >= MIN_HOLD_TIME
          /\ SuHeld <= MAX_REP_TIME
          /\ mx - mn >= MIN_RANGE
          /\ mn < UP_THRESHOLD
          /\ mx >= DOWN_THRESHOLD]_vars

\* C2 witness: a rep has just been counted.
C2_Witness ==
  /\ su_log = "counted"
  /\ su_rep_count > 0

\* C3: while the broad-jump program has no scale it runs no trial and
\* reports no distance, best or average; a failed calibration ends it.
C3_NoScaleNoTrial ==
  /\ bj_px_per_meter = BjNone =>
       /\ bj_pc \in {"open_camera", "calibrate", "calibrate_clicks",
                     "calibrate_input", "done"}
       /\ bj_trial = 0
       /\ bj_results = <<>>
       /\ bj_saved = 0
       /\ bj_best = BjNone
       /\ bj_avg = BjNone
       /\ bj_report \in {"nothing", "camera_error", "calibration_failed"}
  /\ bj_report = "calibration_failed" =>
       bj_pc = "done" /\ bj_px_per_meter = BjNone

\* C3 witness: calibration failed after two points were clicked, i.e. on
\* the typed reference distance.
C3_Witness ==
  /\ bj_report = "calibration_failed"
  /\ Len(bj_points) = 2

\* C4 as stated: the sit-and-reach test is in COUNTDOWN or MEASURING only
\* with a scale that a calibration procedure of this session produced.
C4_CalibratedBeforeMeasuring ==
  sr_state \in {"COUNTDOWN", "MEASURING"} => sr_calibration_method # "None"

\* C5: a frame that detects cheating ends in WAITING with no height sample
\* kept, and no sample is ever carried into a new trial.
C5_CheatDiscardsTrial ==
  [][/\ ha_reported' # <<>> =>
          ha_state' = "WAITING" /\ ha_height_measurements' = <<>>
     /\ ha_state' \in {"WAITING", "POSITIONING", "COUNTDOWN"} =>
          ha_height_measurements' = <<>>
     /\ (ha_state # "COMPLETE" /\ ha_state' = "COMPLETE") =>
          /\ ha_state = "MEASURING"
          /\ ha_reported' = <<>>
          /\ ~ha_cheat_detected']_vars

\* C5 witness: cheating has just been detected and the trial thrown away.
C5_Witness ==
  /\ ha_reported # <<>>
  /\ ha_state = "WAITING"
  /\ ha_height_measurements = <<>>

\* C6 as stated: within a trial a baseline value, once assigned, is not
\* assigned again.
C6_BaselineAssignedOnce ==
  [][(ha_state = "MEASURING" /\ ha_state' = "MEASURING") =>
       /\ ha_initial_foot_y # HaNone => ha_initial_foot_y' = ha_initial_foot_y
       /\ ha_initial_nose_y # HaNone => ha_initial_nose_y' = ha_initial_nose_y
       /\ ha_initial_torso_length # HaNone
            => ha_initial_torso_length' = ha_initial_torso_length
       /\ ha_initial_leg_length # HaNone
            => ha_initial_leg_length' = ha_initial_leg_length]_vars

\* C7 as stated: from the first measuring frame of attempt 1 until the
\* session is complete, baseline_x does not change.
C7_BaselineFixed ==
  [][(\/ sr_state = "MEASURING"
      \/ sr_current_attempt >= 1 /\ sr_state # "COMPLETE")
     => sr_baseline_x' = sr_baseline_x]_vars

\* C8: in COMPLETE, no step other than the restart key changes the sit-up
\* phase or rep count, nor the sit-and-reach state, attempts or best reach.
C8_CompleteAbsorbing ==
  [][/\ (su_phase = "COMPLETE" /\ ~SuKeyRestart)
          => UNCHANGED <<su_phase, su_rep_count>>
     /\ (sr_state = "COMPLETE" /\ ~SrKeyRestart)
          => UNCHANGED <<sr_state, sr_attempts, sr_current_attempt,
                         sr_max_reach_cm>>]_vars

\* C8 witness: the sit-and-reach test is COMPLETE with its three attempts
\* recorded, on a scale that a frame set.
C8_Witness ==
  /\ sr_state = "COMPLETE"
  /\ Len(sr_attempts) = max_attempts
  /\ sr_calibration_method = "AUTO"

\* C9 as stated: every cheat check the frame's pose fails is among the
\* reasons reported for the frame.
C9_AllViolationsReported ==
  \A r \in ha_violations : \E i \in 1..Len(ha_reported) : ha_reported[i] = r

\* C10 as stated: once a calibration has set the scale, no frame changes it.
C10_ScaleFixed ==
  [][(sr_calibration_method # "None" /\ ~SrKeyRestart)
     => sr_pixels_per_cm' = sr_pixels_per_cm]_vars

\* A WAITING frame finalises the scale on the body-ratio branch
HaBodyRatioFinalises ==
  ha_calibrated_by = "none" /\ ha_calibrated_by' = "AI"

\* The scale the body-ratio branch may finalise on a list of samples: none
\* (the empty set) unless there are 50 samples of which 35 lie within 3% of
\* their median, and then the median of those
HaBodyRatioScales(s) ==
  LET med == Median(s)
      near == {i \in 1..Len(s) : 100 * Abs(s[i] - med) <= 3 * med}
      Near(v) == \E i \in near : s[i] = v
  IN IF Len(s) >= 50 /\ Cardinality(near) >= 35
     THEN {Median(SelectSeq(s, Near))}
     ELSE {}

\* C11: the body-ratio calibration finalises a scale only once it holds at
\* least 50 samples of which at least 35 lie within 3% of their median, and
\* the scale is then the median of those; a WAITING frame that finalises no
\* scale leaves the assessment collecting.
C11_BodyRatioFinalisation ==
  [][/\ HaBodyRatioFinalises =>
         \E body_px \in HaBodyPx :
            /\ body_px > 250
            /\ ha_pixels_per_cm' \in
                 HaBodyRatioScales(SortedInsert(ha_calibration_samples,
                                                body_px \div 145))
     /\ (ha_state = "WAITING" /\ ha_calibrated_by' = "none")
          => ha_state' = "WAITING" /\ ~ha_is_calibrated']_vars

\* C11 witness: the body-ratio branch has finalised a scale
C11_Witness ==
  ha_calibrated_by = "AI" /\ ha_is_calibrated /\ ha_state = "POSITIONING"

\* C12: whenever the calibration finalises by the fiducial marker, the list
\* whose median becomes the scale holds at least 10 samples, every one of
\* them measured from a detected marker.
C12_MarkerSamplesOnly ==
  [][(ha_calibrated_by = "none" /\ ha_calibrated_by' = "ARUCO")
       => /\ Len(ha_calibration_samples) + 1 >= 10
          /\ ha_marker_samples = Len(ha_calibration_samples)]_vars

\* C13: the calibration does not stay collecting indefinitely: once the
\* deadline has passed without a scale, the assessment is no longer in
\* WAITING collecting samples.
C13_CollectingEnds ==
  ~(/\ ha_state = "WAITING"
    /\ ~ha_is_calibrated
    /\ ~ha_quit
    /\ ha_waiting_age >= CollectingDeadlineSecs)

\* C14: every scale the broad-jump calibration returns, and every scale a
\* trial divides by, is strictly greater than 0.
C14_ScalePositive ==
  bj_px_per_meter # BjNone => bj_px_per_meter > 0

\* C15: sessions share no state: serving analyze_video or reset_upload
\* changes neither the start and finish lines nor the run flags that a live
\* camera run in progress is using.
C15_UploadLeavesLiveRun ==
  [][(/\ sp_request' \in {"analyze_video", "reset_upload"}
      /\ sp_runner_started /\ ~sp_runner_finished)
       => UNCHANGED <<sp_start_line, sp_finish_line, sp_runner_started,
                      sp_runner_finished>>]_vars

\* C16: once a run has finished, two check_status replies with no start_test
\* or reset between them carry the same time and the same speed.
C16_StatusIdempotent ==
  [][(/\ sp_request' = "check_status"
      /\ sp_reply_time # SpNone
      /\ sp_reply_time' # SpNone)
       => /\ sp_reply_time' = sp_reply_time
          /\ sp_reply_speed' = sp_reply_speed]_vars

\* C17: a broad-jump session that ends with zero valid trials reports the
\* explicit "no valid jumps" outcome, and no numeric best or average.
C17_NoResultIsExplicit ==
  (bj_pc = "done" /\ bj_results = <<>>)
    => /\ bj_report # "results"
       /\ bj_best = BjNone
       /\ bj_avg = BjNone
       /\ bj_px_per_meter # BjNone => bj_report = "no_valid_jumps"

\* C17 witness: the three trials were run and none was valid
C17_Witness ==
  /\ bj_pc = "done"
  /\ bj_trial = 3
  /\ bj_results = <<>>
  /\ bj_report = "no_valid_jumps"

\* C18: the best and the average are computed over valid trials only: every
\* distance that enters them comes from a trial with a take-off and a
\* landing and lies within the accepted range of 0.2 m to 5.0 m.
C18_AggregatesOverValidOnly ==
  \A i \in 1..Len(bj_results) :
     bj_results[i] >= 200 /\ bj_results[i] <= 5000

\* C19: an invalid trial is still retained in the session's record: once
\* the N trials have been run the record holds N entries.
C19_InvalidTrialsRetained ==
  (bj_pc = "done" /\ bj_px_per_meter # BjNone)
    => Len(bj_results) = bj_trial

\* C20: a MEASURING frame whose foot reference is more than 25 px away from
\* its baseline, in either direction, is rejected with the tiptoe violation.
C20_FootBandEitherWay ==
  [][\A pose \in HaPoses, dt \in HaDts :
       (/\ HaMeasuringFrame(pose, dt)
        /\ ha_initial_foot_y # HaNone
        /\ Abs(pose.foot_y - ha_initial_foot_y) > 25)
         => /\ ha_reported' = <<"TIPTOEING / HEELS / SHOES DETECTED">>
            /\ ha_state' = "WAITING"]_vars

\* A RUNNING frame with landmarks rejects a rep: UP is left without a count
SuRepRejected ==
  /\ su_phase = "RUNNING"
  /\ su_frames' = su_frames + 1
  /\ su_state = "UP" /\ su_state' = "DOWN"
  /\ su_rep_count' = su_rep_count

\* A RUNNING frame with landmarks rejects the DOWN -> UP transition: the
\* angle is below 70 and the state stays DOWN
SuTransitionRejected ==
  /\ su_phase = "RUNNING"
  /\ su_frames' = su_frames + 1
  /\ su_log' # "no_body"
  /\ su_state = "DOWN" /\ su_state' = "DOWN"
  /\ su_current_angle' < 70

\* C21 as stated: after a rejected rep or a rejected transition attempt the
\* tracked extremes are cleared (minimum 180, maximum 0).
C21_RejectionClearsExtremes ==
  [][(SuRepRejected \/ SuTransitionRejected)
       => /\ su_min_angle_in_cycle' = 180
          /\ su_max_angle_in_cycle' = 0]_vars

\* C21 amended: a rejected rep clears the extremes and leaves the state
\* DOWN; a rejected DOWN -> UP transition attempt clears nothing: the state
\* stays DOWN and the extremes keep following the angle, the rejected
\* frame's included.
C21_RejectedRepClearsExtremes ==
  [][/\ SuRepRejected
          => /\ su_min_angle_in_cycle' = 180
             /\ su_max_angle_in_cycle' = 0
     /\ SuTransitionRejected
          => /\ su_min_angle_in_cycle'
                  = Min(su_min_angle_in_cycle, su_current_angle')
             /\ su_max_angle_in_cycle'
                  = Max(su_max_angle_in_cycle, su_current_angle')
             /\ su_min_angle_in_cycle' < 70
             /\ su_rep_count' = su_rep_count]_vars

\* C21 witness: a rep has been rejected and the extremes are cleared
C21_Witness ==
  /\ su_phase = "RUNNING"
  /\ su_log \in {"rej_hold", "rej_slow"}
  /\ su_state = "DOWN"
  /\ su_min_angle_in_cycle = 180

\* C22: a frame with no usable pose landmarks is no observation.  In the
\* sit-up RUNNING phase it changes neither the phase, the DOWN/UP state, the
\* tracked extremes nor the rep count; in the broad-jump tracking loop it
\* changes neither the take-off flag, the landing counter, the tracked
\* positions nor the trial; neither ends the run.
C22_NoPoseNoObservation ==
  [][/\ (\E angle \in SuAngles, dt \in SuDts :
            SuRunningFrame(FALSE, angle, dt))
          => /\ UNCHANGED <<su_phase, su_state, su_rep_count,
                            su_current_angle, su_min_angle_in_cycle,
                            su_max_angle_in_cycle>>
             /\ ~su_quit'
     /\ (\E dt \in BjDts :
            /\ bj_age + dt < 10
            /\ BjTrackFrame(TRUE, BjNone, dt))
          => UNCHANGED <<bj_pc, bj_took_off, bj_stable, bj_max_x,
                         bj_prev_smooth, bj_trial, bj_results,
                         bj_report>>]_vars

\* C22 witness: the body was lost in the UP state of a cycle under way, and
\* the state and the extremes are still there
C22_Witness ==
  /\ su_phase = "RUNNING"
  /\ su_log = "no_body"
  /\ su_state = "UP"
  /\ su_min_angle_in_cycle < 70

\* C23: an attempt in which the hands were only seen before the baseline
\* line records a negative reach; an attempt whose last frame sees the hands
\* beyond the line records a positive reach.
C23_ReachSigned ==
  [][(/\ sr_state = "MEASURING"
      /\ Len(sr_attempts') = Len(sr_attempts) + 1
      /\ sr_baseline_x # NoBaseline)
       => \A hip_px \in SrHipToAnklePx, wrist_x, finger_x \in SrHandX,
             dt \in SrDts :
            SrMeasuringFrame(hip_px, wrist_x, finger_x, dt)
              => /\ (/\ sr_max_reach_cm = 0
                     /\ wrist_x # 0 /\ wrist_x < sr_baseline_x
                     /\ finger_x # 0 /\ finger_x < sr_baseline_x)
                      => sr_attempts'[Len(sr_attempts')] < 0
                 /\ (/\ wrist_x > sr_baseline_x
                     /\ finger_x > sr_baseline_x)
                      => sr_attempts'[Len(sr_attempts')] > 0]_vars

\* C24: the derived scale is the pixel measurement divided by the reference
\* distance, so scale x distance is the same for every reference distance
\* (here 100 x the pixel measurement, with the distance in cm); 500 px
\* labelled 1.0 m give the scale 500, and a 550 px span then measures 1.1 m.
C24_ScaleInverseToDistance ==
  /\ sc_px_per_meter # BjNone
       => /\ sc_px_per_meter * sc_real_cm = 100 * sc_px_distance
          /\ (sc_px_distance = 500 /\ sc_real_cm = 100)
               => sc_px_per_meter = 500
  /\ sc_distance_mm # BjNone
       => /\ sc_distance_mm * sc_px_per_meter <= 1000 * sc_span_px
          /\ 1000 * sc_span_px < (sc_distance_mm + 1) * sc_px_per_meter
          /\ (sc_px_per_meter = 500 /\ sc_span_px = 550)
               => sc_distance_mm = 1100

\* C24 witness: 500 px labelled 1.0 m, and a span of 550 px measured
C24_Witness ==
  /\ sc_px_distance = 500 /\ sc_real_cm = 100
  /\ sc_px_per_meter = 500
  /\ sc_span_px = 550
  /\ sc_distance_mm = 1100

\* C25: for every age from 4 to 100, get_age_group returns one of the
\* twelve groups, the age lies in exactly one band, and the group returned
\* is that band's.
C25_AgeGroupUnique ==
  (ag_group # "" /\ ag_age >= 4 /\ ag_age <= 100)
    => /\ ag_group \in {"U6", "U8", "U10", "U12", "U14", "U16", "U18",
                        "U20", "Senior", "Masters-35-44", "Masters-45-54",
                        "Masters-55-plus"}
       /\ Cardinality(AgMatching(ag_age)) = 1
       /\ \A i \in AgMatching(ag_age) : ag_group = AGE_GROUPS[i].group

\* C25 witness: an age at the edge of two bands has been classified
C25_Witness ==
  ag_age = 35 /\ ag_group = "Masters-35-44"

\* C26: in the threaded sprint server runner_finished is true only if
\* runner_started is true and start_time is set.
C26_FinishedOnlyIfStarted ==
  sp_runner_finished => (sp_runner_started /\ sp_start_age # SpNone)

\* C27: a RUNNING frame processed once 30 s have elapsed since RUNNING
\* started sets the phase to COMPLETE, whatever the frame shows.
C27_TimeUpCompletes ==
  [][\A landmarks \in BOOLEAN, angle \in SuAngles, dt \in SuDts :
       (/\ su_phase = "RUNNING"
        /\ SuRunningFrame(landmarks, angle, dt)
        /\ su_elapsed' >= test_duration)
       => su_phase' = "COMPLETE"]_vars

\* C28: rep_count never increases on a frame processed more than 30 s
\* after RUNNING started.
C28_NoRepAfterTime ==
  [][su_rep_count' > su_rep_count => su_elapsed' <= test_duration]_vars

\* C29: the restart from COMPLETE leaves the sit-and-reach test as
\* __init__ leaves a new object: no baseline, no baseline samples or lock,
\* no auto-start flag and no attempt timer remain.
C29_RestartIsFresh ==
  [][SrKeyRestart =>
       /\ sr_state' = "READY"
       /\ sr_baseline_x' = NoBaseline
       /\ sr_baseline_samples' = [n |-> 0, sum |-> 0]
       /\ sr_baseline_locked' = FALSE
       /\ sr_ready_started' = FALSE
       /\ sr_attempt_age' = -1
       /\ sr_max_reach_cm' = 0
       /\ sr_attempts' = <<>>
       /\ sr_current_attempt' = 0]_vars

\* C30: every change of the sit-up phase other than a restart goes to the
\* next phase of WELCOME, USER_INFO, CAMERA_SETUP, RULES, POSITION,
\* COUNTDOWN, RUNNING, COMPLETE.
C30_PhaseOrder ==
  [][LET order == <<"WELCOME", "USER_INFO", "CAMERA_SETUP", "RULES",
                    "POSITION", "COUNTDOWN", "RUNNING", "COMPLETE">>
     IN (su_phase' # su_phase /\ ~SuKeyRestart)
          => \E i \in 1..(Len(order) - 1) :
               su_phase = order[i] /\ su_phase' = order[i + 1]]_vars

\* C30 witness: a test that went through every phase and ended on time
C30_Witness ==
  su_phase = "COMPLETE" /\ su_elapsed >= test_duration /\ su_rep_count = 1

\* C31: the sit-up test leaves POSITION for COUNTDOWN only on a frame
\* before which the start position was already ready, and with more than
\* 2 s spent in POSITION.
C31_ReadyHeldBeforeCountdown ==
  [][(su_phase = "POSITION" /\ su_phase' = "COUNTDOWN")
       => su_position_ready]_vars

\* C32: SPACE takes the sit-up test from CAMERA_SETUP to RULES only when
\* the camera frame on screen shows every required landmark.
C32_SpaceNeedsBodyInView ==
  [][(su_phase = "CAMERA_SETUP" /\ su_phase' = "RULES")
       => su_setup_view = "full"]_vars

\* C33: in the sit-and-reach test current_attempt is the number of
\* recorded attempts, an attempt is recorded one at a time under the next
\* number, and COMPLETE is entered exactly on the step that records the
\* third attempt.
C33_AttemptsCounted ==
  [][/\ sr_current_attempt = Len(sr_attempts)
     /\ sr_current_attempt' = Len(sr_attempts')
     /\ sr_attempts' # sr_attempts /\ ~SrKeyRestart
          => /\ Len(sr_attempts') = Len(sr_attempts) + 1
             /\ SubSeq(sr_attempts', 1, Len(sr_attempts)) = sr_attempts
             /\ sr_current_attempt + 1 = Len(sr_attempts')
     /\ (sr_state # "COMPLETE" /\ sr_state' = "COMPLETE")
          <=> (Len(sr_attempts) = 2 /\ Len(sr_attempts') = 3)]_vars

\* C33 witness: the third attempt has just been recorded
C33_Witness ==
  /\ sr_state = "COMPLETE"
  /\ sr_current_attempt = 3
  /\ Len(sr_attempts) = 3
  /\ sr_sessions = 0

\* C34: once the processing task of an uploaded video has returned a
\* result, the status of the job eventually is "completed".
C34_FinishedTaskCompletesJob ==
  \A session \in ShSessions :
    (sh_tasks[session].state = "returned"
       /\ sh_tasks[session].return.error = "none")
      ~> (sh_jobs[session].status = "completed")

C36_LatchAfterFiveStillFrames ==
  [][(bj_start_x = BjNone /\ bj_start_x' # BjNone)
       => bj_still_run' >= STATIC_FRAMES_REQUIRED]_vars

\* C37: on a non-empty pose sequence of length n the phase ranges lie in
\* 0..n-1, are ordered setup, take-off, peak, landing, and
\* extract_from_pose indexes inside the sequence.
C37_PhasesInRange ==
  fe_outcome # "none" =>
    LET n == Len(fe_com_heights)
        bounds == <<fe_phases.setup[1], fe_phases.setup[2],
                    fe_phases.takeoff[1], fe_phases.takeoff[2],
                    fe_phases.peak[1], fe_phases.peak[2],
                    fe_phases.landing[1], fe_phases.landing[2]>>
    IN /\ \A k \in 1..8 : bounds[k] >= 0 /\ bounds[k] <= n - 1
       /\ \A k \in 1..7 : bounds[k] <= bounds[k + 1]
       /\ fe_outcome = "features"

\* C38: in USER_INFO the key Q, in either case, selects Female, 46-55
\* years, and takes the sit-up test to CAMERA_SETUP.
C38_QSelectsFemale46 ==
  [][(su_phase = "USER_INFO" /\ (SuKeyQuit \/ SuKeyUserInfo("Q")))
       => /\ su_gender' = "Female"
          /\ su_age' = "46-55 years"
          /\ su_phase' = "CAMERA_SETUP"]_vars

\* C39: on a frame that evaluates a rep (state UP, angle above 160) the
\* tracked minimum is below 70 and the tracked maximum above 160, the range
\* is at least 90, and the rep is not rejected by validation 4 or 5.
C39_ExtremesAlwaysPass ==
  [][\A angle \in SuAngles, dt \in SuDts :
       (/\ su_phase = "RUNNING"
        /\ su_state = "UP"
        /\ angle > DOWN_THRESHOLD
        /\ SuRunningFrame(TRUE, angle, dt))
       => LET mn == Min(su_min_angle_in_cycle, angle)
              mx == Max(su_max_angle_in_cycle, angle)
          IN /\ mn < UP_THRESHOLD
             /\ mx > DOWN_THRESHOLD
             /\ mx - mn >= 90
             /\ su_log' \notin {"rej_range", "rej_min", "rej_max"}]_vars

\* C39 witness: a rep was evaluated and rejected by an earlier validation,
\* after one that was counted
C39_Witness ==
  /\ su_log \in {"rej_hold", "rej_slow"}
  /\ su_rep_count = 1
  /\ su_state = "DOWN"
  /\ su_current_angle > DOWN_THRESHOLD

====
